---- MODULE Spec2Model ----
(***************************************************************************)
(* A model of the travelbuddy backend: the in-memory rate limiter, the     *)
(* checklist generator with its fallback catalog, the /generate-checklist  *)
(* route, the JWT token service and the /auth/login route.                 *)
(*                                                                         *)
(* Time is counted in ticks, TicksPerSecond ticks to the second, so that   *)
(* the truncations to whole seconds done by the code (int(...), the JWT    *)
(* exp claim) are visible.  Strings whose content matters are sequences of *)
(* one-character strings.                                                  *)
(***************************************************************************)
EXTENDS Integers, Sequences, FiniteSets, TLC

VARIABLES
    now,            \* the wall clock (time.time(), datetime.utcnow()), in ticks
    clients,        \* RateLimiter.clients: client_id -> (request_count, window_start)
    rl_last,        \* the last is_allowed call: its arguments, entry before/after, result
    rl_window,      \* per client: the window the client is in, and the calls made in it
    gen_pc,         \* where generate_checklist is: "idle", "awaiting_llm", "done"
    trip_data,      \* the TripDataResponse handed to generate_checklist
    ai_outcome,     \* what groq_client.generate_completion did
    gen_result,     \* what generate_checklist returned or raised
    http,           \* the HTTP response of the /generate-checklist route
    issued,         \* the token created by create_access_token, its data and expiry
    verified,       \* the last verify_token call: when, and its result
    login,          \* the last POST /auth/login: the body and the response
    request,        \* the last request to a bearer-protected route, and its outcome
    session,        \* the token a client got from login, and what happened to it
    logout_resp,    \* the last response of POST /auth/logout
    health,         \* HealthChecker: the registry, a run of the probes, last_results
    environment,    \* settings.ENVIRONMENT
    live,           \* the last request to GET /health/live, and its response
    call,           \* a call of a pure function: its name, input and result
    tasks,          \* the coroutines that use the rate limiter, and where each is
    lock,           \* RateLimiter._lock: the task that holds it, or None
    rl_allowed,     \* per client: the calls answered allow in its current window
    process,        \* the server process: its settings, where its start-up or
                    \* shutdown is, and its rate-limiter cleanup task
    gen_run,        \* one run of generate_checklist, statement by statement,
                    \* with the calls of generate_completion it has made
    shadow          \* a rate limiter that gets the same calls as the real one
                    \* but is never swept, and the last answers of both

rl_vars    == <<clients, rl_last, rl_window>>
gen_vars   == <<gen_pc, trip_data, ai_outcome, gen_result, http>>
token_vars == <<issued, verified>>
login_vars == <<login>>
session_vars == <<session, logout_resp>>
health_vars == <<health>>
live_vars  == <<environment, live>>
proc_vars  == <<tasks, lock, rl_allowed, process, gen_run, shadow>>
call_vars  == <<call, proc_vars>>
app_vars   == <<request, session, logout_resp, health, environment, live, call,
               proc_vars>>
vars == <<now, clients, rl_last, rl_window, gen_pc, trip_data, ai_outcome,
          gen_result, http, issued, verified, login, request, session,
          logout_resp, health, environment, live, call, tasks, lock, rl_allowed,
          process, gen_run, shadow>>

\* The absent value (Python's None, a missing dict key), comparable with records.
None == [none |-> TRUE]

\* -------------------------------------------------------------------------
\* Bounds of the model
\* -------------------------------------------------------------------------
TicksPerSecond == 2
MaxTime == 12            \* last clock reading explored, in ticks
MaxCallsPerWindow == 3   \* is_allowed calls explored per client and window
MaxSweepCalls == 5       \* is_allowed calls explored beside the unswept limiter

Floor(ticks) == ticks \div TicksPerSecond     \* int(x): whole seconds of a tick count

\* =========================================================================
\* Rate limiter (src/app/core/rate_limiter.py)
\* =========================================================================
requests_per_window == 2     \* RateLimiter.requests_per_window
window_seconds == 2          \* RateLimiter.window_seconds
ClientIds == {"c1", "c2"}

WindowTicks == window_seconds * TicksPerSecond

Max(a, b) == IF a >= b THEN a ELSE b

_get_headers(current_requests, window_start) ==
    [limit     |-> requests_per_window,
     remaining |-> Max(0, requests_per_window - current_requests),
     reset     |-> Floor(window_start + WindowTicks),
     window    |-> window_seconds]

\* is_allowed as a function of the stored entry (None when absent) and the
\* clock: the decision, the headers and the entry stored afterwards.
\* (mutant) the limit compared with > instead of >=
is_allowed_mut_limit(entry, current_time) ==
    IF entry = None
    THEN [allowed |-> TRUE, headers |-> _get_headers(1, current_time),
          entry |-> [count |-> 1, window_start |-> current_time]]
    ELSE IF current_time - entry.window_start >= WindowTicks
    THEN [allowed |-> TRUE, headers |-> _get_headers(1, current_time),
          entry |-> [count |-> 1, window_start |-> current_time]]
    ELSE IF entry.count > requests_per_window
    THEN [allowed |-> FALSE, headers |-> _get_headers(entry.count, entry.window_start),
          entry |-> entry]
    ELSE [allowed |-> TRUE, headers |-> _get_headers(entry.count + 1, entry.window_start),
          entry |-> [count |-> entry.count + 1, window_start |-> entry.window_start]]

is_allowed(entry, current_time) ==
    IF entry = None
    THEN [allowed |-> TRUE, headers |-> _get_headers(1, current_time),
          entry |-> [count |-> 1, window_start |-> current_time]]
    ELSE IF current_time - entry.window_start >= WindowTicks
    THEN [allowed |-> TRUE, headers |-> _get_headers(1, current_time),
          entry |-> [count |-> 1, window_start |-> current_time]]
    ELSE IF entry.count >= requests_per_window
    THEN [allowed |-> FALSE, headers |-> _get_headers(entry.count, entry.window_start),
          entry |-> entry]
    ELSE [allowed |-> TRUE, headers |-> _get_headers(entry.count + 1, entry.window_start),
          entry |-> [count |-> entry.count + 1, window_start |-> entry.window_start]]

Entry(c) == IF c \in DOMAIN clients THEN clients[c] ELSE None

\* The window a call at time t falls in, kept apart from the limiter's own
\* map: a window opens with the first call of a client, or with its first
\* call at or after the previous window's start + window_seconds.
NextWindow(w, t) ==
    IF w = None \/ t >= w.start + WindowTicks
    THEN [start |-> t, calls |-> 1]
    ELSE [start |-> w.start, calls |-> w.calls + 1]

\* One call of RateLimiter.is_allowed(client_id), under the lock.
IsAllowed(c) ==
    LET r == is_allowed(Entry(c), now)
        w == NextWindow(rl_window[c], now)
    IN  /\ w.calls <= MaxCallsPerWindow
        /\ clients' = [x \in (DOMAIN clients) \cup {c} |->
                          IF x = c THEN r.entry ELSE clients[x]]
        /\ rl_last' = [client |-> c, time |-> now, before |-> Entry(c),
                       after |-> r.entry, allowed |-> r.allowed,
                       headers |-> r.headers, window |-> w]
        /\ rl_window' = [rl_window EXCEPT ![c] = w]
        /\ UNCHANGED <<now, gen_vars, token_vars, login_vars, app_vars>>

\* One sweep of RateLimiter.cleanup_expired_clients, under the lock.
cleanup_expired_clients ==
    LET expired_clients == {c \in DOMAIN clients :
                              now - clients[c].window_start >= WindowTicks * 2}
    IN  /\ clients' = [x \in (DOMAIN clients) \ expired_clients |-> clients[x]]
        /\ UNCHANGED <<now, rl_last, rl_window, gen_vars, token_vars, login_vars, app_vars>>

\* The clock moves on.
Tick ==
    /\ now < MaxTime
    /\ now' = now + 1
    /\ UNCHANGED <<rl_vars, gen_vars, token_vars, login_vars, app_vars>>

\* -------------------------------------------------------------------------
\* Initial values of the parts a specification does not exercise
\* -------------------------------------------------------------------------
NoCall == None
RlIdle == /\ clients = <<>>
          /\ rl_last = NoCall
          /\ rl_window = [c \in ClientIds |-> None]
GenIdle == /\ gen_pc = "idle"
           /\ trip_data = None
           /\ ai_outcome = None
           /\ gen_result = None
           /\ http = None
TokenIdle == /\ issued = None
             /\ verified = None
LoginIdle == login = None
SessionIdle == /\ request = None
               /\ session = None
               /\ logout_resp = None
HealthIdle == health = None
E_development == <<"d","e","v","e","l","o","p","m","e","n","t">>
LiveIdle == /\ environment = E_development
            /\ live = None
CallIdle == call = None
ProcIdle == /\ tasks = None
            /\ lock = None
            /\ rl_allowed = None
            /\ process = None
            /\ gen_run = None
            /\ shadow = None
AppIdle == SessionIdle /\ HealthIdle /\ LiveIdle /\ CallIdle

InitRateLimiter == now = 0 /\ RlIdle /\ GenIdle /\ TokenIdle /\ LoginIdle /\ ProcIdle /\ AppIdle
NextRateLimiter ==
    \/ \E c \in ClientIds : IsAllowed(c)
    \/ cleanup_expired_clients
    \/ Tick
SpecRateLimiter == InitRateLimiter /\ [][NextRateLimiter]_vars

\* -------------------------------------------------------------------------
\* C1: for one client and a limit >= 1, the first `limit` calls inside one
\* window are allowed, every further call inside that window is denied and
\* leaves the stored entry (count and window_start) as it was, and the
\* first call at or after window_start + window_seconds is allowed and
\* stores a fresh entry (count 1, window_start = now).
\* -------------------------------------------------------------------------
C1_RateLimiterWindowing ==
    rl_last # NoCall =>
        LET w == rl_last.window
        IN  /\ (w.calls <= requests_per_window) => rl_last.allowed
            /\ (w.calls > requests_per_window) =>
                  /\ ~rl_last.allowed
                  /\ rl_last.after = rl_last.before
            /\ (w.calls = 1) =>
                  /\ rl_last.allowed
                  /\ rl_last.after = [count |-> 1, window_start |-> rl_last.time]
            /\ rl_last.after.window_start = w.start
            /\ rl_last.allowed => rl_last.after.count = w.calls

\* A denied call inside a window, and a call that reopens a window after a
\* denial, are both reached.
C1_Witness ==
    /\ rl_last # NoCall
    /\ rl_last.window.calls = 1
    /\ rl_last.before # None
    /\ rl_last.before.count = requests_per_window
    /\ rl_last.time >= rl_last.before.window_start + WindowTicks
    /\ rl_last.after = [count |-> 1, window_start |-> rl_last.time]


\* =========================================================================
\* Strings: sequences of one-character strings
\* =========================================================================
\* The lower-case letter of each upper-case letter.
LowerOf ==
    [A |-> "a", B |-> "b", C |-> "c", D |-> "d", E |-> "e", F |-> "f", G |-> "g",
     H |-> "h", I |-> "i", J |-> "j", K |-> "k", L |-> "l", M |-> "m", N |-> "n",
     O |-> "o", P |-> "p", Q |-> "q", R |-> "r", S |-> "s", T |-> "t", U |-> "u",
     V |-> "v", W |-> "w", X |-> "x", Y |-> "y", Z |-> "z"]
Whitespace == {" "}

\* str.lower()
lower(s) ==
    SubSeq([i \in 1..Len(s) |-> IF s[i] \in DOMAIN LowerOf THEN LowerOf[s[i]] ELSE s[i]],
           1, Len(s))

\* str.strip()
strip(s) ==
    LET keep == {i \in 1..Len(s) : s[i] \notin Whitespace}
    IN  IF keep = {} THEN <<>>
        ELSE SubSeq(s, CHOOSE i \in keep : \A j \in keep : i <= j,
                       CHOOSE i \in keep : \A j \in keep : i >= j)

\* word in s
Contains(s, word) ==
    LET text == s
        n == Len(word)
    IN  \E i \in 1..(Len(text) - n + 1) : SubSeq(text, i, i + n - 1) = word

\* =========================================================================
\* Checklist generator (src/app/services/checklist_generator.py)
\* =========================================================================
TransportType == {"car", "train", "plane", "bus", "other"}
PriorityLevel == {"high", "medium", "low"}

\* _load_fallback_items: the baseline catalog
fallback_items == <<
    \* Passport or government-issued ID
    [text |-> <<"P","a","s","s","p","o","r","t"," ","o","r"," ","g","o","v","e","r","n","m","e",
        "n","t","-","i","s","s","u","e","d"," ","I","D">>, category |-> <<"D","o","c","u","m",
        "e","n","t","s">>, priority |-> "high"],
    \* Travel insurance documents
    [text |-> <<"T","r","a","v","e","l"," ","i","n","s","u","r","a","n","c","e"," ","d","o","c",
        "u","m","e","n","t","s">>, category |-> <<"D","o","c","u","m","e","n","t","s">>,
         priority |-> "high"],
    \* Hotel/accommodation confirmations
    [text |-> <<"H","o","t","e","l","/","a","c","c","o","m","m","o","d","a","t","i","o","n"," ",
        "c","o","n","f","i","r","m","a","t","i","o","n","s">>, category |-> <<"D","o","c","u",
        "m","e","n","t","s">>, priority |-> "high"],
    \* Emergency contact information
    [text |-> <<"E","m","e","r","g","e","n","c","y"," ","c","o","n","t","a","c","t"," ","i","n",
        "f","o","r","m","a","t","i","o","n">>, category |-> <<"D","o","c","u","m","e","n","t",
        "s">>, priority |-> "high"],
    \* Underwear (enough for trip duration + 2 extra)
    [text |-> <<"U","n","d","e","r","w","e","a","r"," ","(","e","n","o","u","g","h"," ","f","o",
        "r"," ","t","r","i","p"," ","d","u","r","a","t","i","o","n"," ","+"," ","2"," ","e","x",
        "t","r","a",")">>, category |-> <<"C","l","o","t","h","i","n","g">>,
         priority |-> "high"],
    \* Socks (enough for trip duration + 2 extra)
    [text |-> <<"S","o","c","k","s"," ","(","e","n","o","u","g","h"," ","f","o","r"," ","t","r",
        "i","p"," ","d","u","r","a","t","i","o","n"," ","+"," ","2"," ","e","x","t","r","a",
        ")">>, category |-> <<"C","l","o","t","h","i","n","g">>, priority |-> "high"],
    \* Weather-appropriate outerwear
    [text |-> <<"W","e","a","t","h","e","r","-","a","p","p","r","o","p","r","i","a","t","e"," ",
        "o","u","t","e","r","w","e","a","r">>, category |-> <<"C","l","o","t","h","i","n","g">>,
         priority |-> "medium"],
    \* Comfortable walking shoes
    [text |-> <<"C","o","m","f","o","r","t","a","b","l","e"," ","w","a","l","k","i","n","g"," ",
        "s","h","o","e","s">>, category |-> <<"C","l","o","t","h","i","n","g">>,
         priority |-> "medium"],
    \* Sleepwear
    [text |-> <<"S","l","e","e","p","w","e","a","r">>, category |-> <<"C","l","o","t","h","i",
        "n","g">>, priority |-> "medium"],
    \* Prescription medications
    [text |-> <<"P","r","e","s","c","r","i","p","t","i","o","n"," ","m","e","d","i","c","a","t",
        "i","o","n","s">>, category |-> <<"H","e","a","l","t","h">>, priority |-> "high"],
    \* Toothbrush and toothpaste
    [text |-> <<"T","o","o","t","h","b","r","u","s","h"," ","a","n","d"," ","t","o","o","t","h",
        "p","a","s","t","e">>, category |-> <<"T","o","i","l","e","t","r","i","e","s">>,
         priority |-> "high"],
    \* Deodorant
    [text |-> <<"D","e","o","d","o","r","a","n","t">>, category |-> <<"T","o","i","l","e","t",
        "r","i","e","s">>, priority |-> "medium"],
    \* Shampoo and body wash
    [text |-> <<"S","h","a","m","p","o","o"," ","a","n","d"," ","b","o","d","y"," ","w","a","s",
        "h">>, category |-> <<"T","o","i","l","e","t","r","i","e","s">>, priority |-> "medium"],
    \* Sunscreen
    [text |-> <<"S","u","n","s","c","r","e","e","n">>, category |-> <<"H","e","a","l","t","h">>,
         priority |-> "medium"],
    \* Phone and charger
    [text |-> <<"P","h","o","n","e"," ","a","n","d"," ","c","h","a","r","g","e","r">>,
         category |-> <<"E","l","e","c","t","r","o","n","i","c","s">>, priority |-> "high"],
    \* Camera or phone for photos
    [text |-> <<"C","a","m","e","r","a"," ","o","r"," ","p","h","o","n","e"," ","f","o","r"," ",
        "p","h","o","t","o","s">>, category |-> <<"E","l","e","c","t","r","o","n","i","c","s">>,
         priority |-> "low"],
    \* Portable power bank
    [text |-> <<"P","o","r","t","a","b","l","e"," ","p","o","w","e","r"," ","b","a","n","k">>,
         category |-> <<"E","l","e","c","t","r","o","n","i","c","s">>, priority |-> "medium"],
    \* Credit/debit cards
    [text |-> <<"C","r","e","d","i","t","/","d","e","b","i","t"," ","c","a","r","d","s">>,
         category |-> <<"M","o","n","e","y">>, priority |-> "high"],
    \* Cash in local currency
    [text |-> <<"C","a","s","h"," ","i","n"," ","l","o","c","a","l"," ","c","u","r","r","e","n",
        "c","y">>, category |-> <<"M","o","n","e","y">>, priority |-> "medium"],
    \* Reusable water bottle
    [text |-> <<"R","e","u","s","a","b","l","e"," ","w","a","t","e","r"," ","b","o","t","t","l",
        "e">>, category |-> <<"M","i","s","c","e","l","l","a","n","e","o","u","s">>,
         priority |-> "medium"],
    \* Travel pillow
    [text |-> <<"T","r","a","v","e","l"," ","p","i","l","l","o","w">>, category |-> <<"C","o",
        "m","f","o","r","t">>, priority |-> "low"],
    \* Entertainment (books, tablets, etc.)
    [text |-> <<"E","n","t","e","r","t","a","i","n","m","e","n","t"," ","(","b","o","o","k","s",
        ","," ","t","a","b","l","e","t","s",","," ","e","t","c",".",")">>, category |-> <<"E",
        "n","t","e","r","t","a","i","n","m","e","n","t">>, priority |-> "low"]
    >>

\* _get_transport_specific_items: the items added for plane
plane_items == <<
    \* Boarding passes (printed or mobile)
    [text |-> <<"B","o","a","r","d","i","n","g"," ","p","a","s","s","e","s"," ","(","p","r","i",
        "n","t","e","d"," ","o","r"," ","m","o","b","i","l","e",")">>, category |-> <<"D","o",
        "c","u","m","e","n","t","s">>, priority |-> "high"],
    \* Passport or ID
    [text |-> <<"P","a","s","s","p","o","r","t"," ","o","r"," ","I","D">>, category |-> <<"D",
        "o","c","u","m","e","n","t","s">>, priority |-> "high"],
    \* Travel-sized toiletries (3-1-1 rule)
    [text |-> <<"T","r","a","v","e","l","-","s","i","z","e","d"," ","t","o","i","l","e","t","r",
        "i","e","s"," ","(","3","-","1","-","1"," ","r","u","l","e",")">>, category |-> <<"T",
        "o","i","l","e","t","r","i","e","s">>, priority |-> "medium"],
    \* Entertainment for flight
    [text |-> <<"E","n","t","e","r","t","a","i","n","m","e","n","t"," ","f","o","r"," ","f","l",
        "i","g","h","t">>, category |-> <<"E","l","e","c","t","r","o","n","i","c","s">>,
         priority |-> "low"]
    >>

\* _get_transport_specific_items: the items added for car
car_items == <<
    \* Driver's license
    [text |-> <<"D","r","i","v","e","r","'","s"," ","l","i","c","e","n","s","e">>,
         category |-> <<"D","o","c","u","m","e","n","t","s">>, priority |-> "high"],
    \* Car registration and insurance
    [text |-> <<"C","a","r"," ","r","e","g","i","s","t","r","a","t","i","o","n"," ","a","n","d",
        " ","i","n","s","u","r","a","n","c","e">>, category |-> <<"D","o","c","u","m","e","n",
        "t","s">>, priority |-> "high"],
    \* Phone car charger
    [text |-> <<"P","h","o","n","e"," ","c","a","r"," ","c","h","a","r","g","e","r">>,
         category |-> <<"E","l","e","c","t","r","o","n","i","c","s">>, priority |-> "medium"],
    \* Snacks for the road
    [text |-> <<"S","n","a","c","k","s"," ","f","o","r"," ","t","h","e"," ","r","o","a","d">>,
         category |-> <<"F","o","o","d">>, priority |-> "low"]
    >>

\* _get_long_trip_items: the items added when days > 7
long_trip_items == <<
    \* Extra underwear and socks
    [text |-> <<"E","x","t","r","a"," ","u","n","d","e","r","w","e","a","r"," ","a","n","d"," ",
        "s","o","c","k","s">>, category |-> <<"C","l","o","t","h","i","n","g">>,
         priority |-> "medium"],
    \* Laundry detergent packets
    [text |-> <<"L","a","u","n","d","r","y"," ","d","e","t","e","r","g","e","n","t"," ","p","a",
        "c","k","e","t","s">>, category |-> <<"T","o","i","l","e","t","r","i","e","s">>,
         priority |-> "low"],
    \* First aid kit
    [text |-> <<"F","i","r","s","t"," ","a","i","d"," ","k","i","t">>, category |-> <<"H","e",
        "a","l","t","h">>, priority |-> "medium"]
    >>

\* ChecklistItemResponse(...): id (a fresh uuid4) and the two timestamps are
\* left out, they take no part in any decision.
ChecklistItemResponse(text, category, priority) ==
    [text |-> text, category |-> category, priority |-> priority,
     checked |-> FALSE, user_added |-> FALSE]

FromTemplate(item_template) ==
    ChecklistItemResponse(item_template.text, item_template.category,
                          item_template.priority)

Map(f(_), s) == [i \in 1..Len(s) |-> f(s[i])]

W_car      == <<"c","a","r">>
W_boarding == <<"b","o","a","r","d","i","n","g">>
W_flight   == <<"f","l","i","g","h","t">>
W_airport  == <<"a","i","r","p","o","r","t">>

\* (mutant) the two transport conditions swapped
_should_skip_mut_swapped(item, transport) ==
    IF transport = "car" /\ Contains(lower(item.text), W_car)
    THEN TRUE
    ELSE IF transport = "plane"
            /\ \E word \in {W_boarding, W_flight, W_airport} :
                   Contains(lower(item.text), word)
    THEN TRUE
    ELSE FALSE

_should_skip_item_for_transport(item, transport) ==
    IF transport = "plane" /\ Contains(lower(item.text), W_car)
    THEN TRUE
    ELSE IF transport = "car"
            /\ \E word \in {W_boarding, W_flight, W_airport} :
                   Contains(lower(item.text), word)
    THEN TRUE
    ELSE FALSE

_get_transport_specific_items(transport) ==
    IF transport = "plane" THEN Map(FromTemplate, plane_items)
    ELSE IF transport = "car" THEN Map(FromTemplate, car_items)
    ELSE <<>>

_get_long_trip_items == Map(FromTemplate, long_trip_items)

priority_order(p) == CASE p = "high" -> 0 [] p = "medium" -> 1 [] p = "low" -> 2
                       [] OTHER -> 1

\* list.sort(key=...): a stable sort on a key in {0, 1, 2}
SortByPriority(items) ==
    SelectSeq(items, LAMBDA x : priority_order(x.priority) = 0)
    \o SelectSeq(items, LAMBDA x : priority_order(x.priority) = 1)
    \o SelectSeq(items, LAMBDA x : priority_order(x.priority) = 2)

FallbackItemCap == 25
LongTripDays == 7

\* (mutant) long-trip items from 7 days on
customized_items_mut_ge(trip) ==
    LET kept == SelectSeq(fallback_items,
                    LAMBDA t : ~_should_skip_item_for_transport(t, trip.transport))
    IN  Map(FromTemplate, kept)
        \o _get_transport_specific_items(trip.transport)
        \o (IF trip.days >= LongTripDays THEN _get_long_trip_items ELSE <<>>)

\* The list before the cap: filtered baseline, transport items, long-trip items.
customized_items(trip) ==
    LET kept == SelectSeq(fallback_items,
                    LAMBDA t : ~_should_skip_item_for_transport(t, trip.transport))
    IN  Map(FromTemplate, kept)
        \o _get_transport_specific_items(trip.transport)
        \o (IF trip.days > LongTripDays THEN _get_long_trip_items ELSE <<>>)

\* (mutant) the cap applied without sorting by priority first
CapItems_mut_unsorted(items) ==
    IF Len(items) > FallbackItemCap
    THEN SubSeq(items, 1, FallbackItemCap)
    ELSE items

CapItems(items) ==
    IF Len(items) > FallbackItemCap
    THEN SubSeq(SortByPriority(items), 1, FallbackItemCap)
    ELSE items

_generate_fallback_items(trip) == CapItems(customized_items(trip))

\* _parse_priority: str(priority_str).lower().strip(), then the synonym lists
P_high      == <<"h","i","g","h">>
P_essential == <<"e","s","s","e","n","t","i","a","l">>
P_critical  == <<"c","r","i","t","i","c","a","l">>
P_important == <<"i","m","p","o","r","t","a","n","t">>
P_low       == <<"l","o","w">>
P_optional  == <<"o","p","t","i","o","n","a","l">>
P_nice      == <<"n","i","c","e","-","t","o","-","h","a","v","e">>
P_medium    == <<"m","e","d","i","u","m">>

\* (mutant) the input lower-cased but not stripped
_parse_priority_mut_nostrip(priority_str) ==
    LET priority_lower == lower(priority_str)
    IN  IF priority_lower \in {P_high, P_essential, P_critical, P_important}
        THEN "high"
        ELSE IF priority_lower \in {P_low, P_optional, P_nice}
        THEN "low"
        ELSE "medium"

_parse_priority(priority_str) ==
    LET priority_lower == strip(lower(priority_str))
    IN  IF priority_lower \in {P_high, P_essential, P_critical, P_important}
        THEN "high"
        ELSE IF priority_lower \in {P_low, P_optional, P_nice}
        THEN "low"
        ELSE "medium"

\* The AI reply.  The text cleaning of _parse_ai_response (trimming, the
\* ```json fence, the {...} search) is not modelled character by character:
\* a reply is given by what json.loads makes of the cleaned text.
\*   json     "undecodable" (JSONDecodeError), "array" (decodes, but to no dict)
\*            or "object"
\*   has_items  whether the object has the key "items"
\*   iterable   whether parsed_data["items"] can be iterated (a list) or not
\*              (null, a number: the for loop raises TypeError)
\*   items      the entries of the list
\* An entry is a dict (is_dict) with the keys `keys`, or something else.
EntryIsUsable(item_data) ==
    /\ item_data.is_dict
    /\ \A key \in {"text", "category"} : key \in item_data.keys

ParseEntry(item_data) ==
    ChecklistItemResponse(
        strip(item_data.text),
        strip(item_data.category),
        _parse_priority(IF "priority" \in item_data.keys
                        THEN item_data.priority ELSE P_medium))

_parse_ai_response(response) ==
    IF response.json = "undecodable" THEN <<>>
    ELSE IF response.json # "object" \/ ~response.has_items THEN <<>>
    ELSE IF ~response.iterable THEN <<>>
    ELSE Map(ParseEntry, SelectSeq(response.items, EntryIsUsable))

MinAIItems == 5

\* (mutant) the threshold off by one
UseFallback_mut_le(items) == Len(items) = 0 \/ Len(items) <= MinAIItems

\* `if not items or len(items) < 5`
UseFallback(items) == Len(items) = 0 \/ Len(items) < MinAIItems

ChecklistGenerationResponse(items, trip) ==
    [kind |-> "return", items |-> items, trip_data |-> trip]

\* (mutant) the fallback response built without the fallback items
_create_fallback_response_mut_empty(trip) == ChecklistGenerationResponse(<<>>, trip)

_create_fallback_response(trip) ==
    ChecklistGenerationResponse(_generate_fallback_items(trip), trip)

\* Exception classes and isinstance
ExceptionParent(cls) ==
    CASE cls = "GroqRateLimitError" -> "GroqAPIError"
      [] OTHER -> "Exception"

IsInstance(cls, of) ==
    \/ cls = of
    \/ of = "Exception"
    \/ ExceptionParent(cls) = of

Raise(cls, message) == [kind |-> "raise", error |-> cls, message |-> message]

\* (mutant) `except Exception` placed before the provider errors
HandleException_mut_wrap(trip, exc) ==
    Raise("ChecklistGenerationError",
          <<"Failed to generate checklist: ", exc.message>>)

\* The except clauses of generate_checklist, in their order.
HandleException(trip, exc) ==
    IF IsInstance(exc.error, "GroqRateLimitError")
    THEN _create_fallback_response(trip)
    ELSE IF IsInstance(exc.error, "GroqAPIError")
    THEN _create_fallback_response(trip)
    ELSE Raise("ChecklistGenerationError",
               <<"Failed to generate checklist: ", exc.message>>)

\* generate_checklist from the point where generate_completion has returned
\* or raised (outcome) to its own return or raise.
generate_checklist(trip, outcome) ==
    IF outcome.kind = "raise"
    THEN HandleException(trip, outcome)
    ELSE LET items == _parse_ai_response(outcome.value)
         IN  ChecklistGenerationResponse(
                 IF UseFallback(items) THEN _generate_fallback_items(trip) ELSE items,
                 trip)

\* -------------------------------------------------------------------------
\* Inputs
\* -------------------------------------------------------------------------
MaxAIItems == 6          \* longest "items" list of an AI reply
MaxShortList == 3        \* "items" lists up to this length are explored exhaustively

\* A string of which only the length matters (location, occasion, notes).
StrOfLen(n) == [len |-> n]

T_map     == <<"M","a","p">>
T_adapter == <<" ","A","d","a","p","t","e","r"," ">>
Cat_docs  == <<"D","o","c","s">>
Cat_tech  == <<"T","e","c","h"," ">>
P_HIGH    == <<" ","H","I","G","H">>

\* Entries that become items: with and without a priority.
GoodEntry1 == [is_dict |-> TRUE, keys |-> {"text", "category", "priority"},
               text |-> T_adapter, category |-> Cat_tech, priority |-> P_HIGH]
GoodEntry2 == [is_dict |-> TRUE, keys |-> {"text", "category"},
               text |-> T_map, category |-> Cat_docs, priority |-> <<>>]
\* Entries that are skipped: no category, no text, not a dict.
BadEntries ==
    { [is_dict |-> TRUE, keys |-> {"text", "priority"},
       text |-> T_map, category |-> <<>>, priority |-> P_low],
      [is_dict |-> TRUE, keys |-> {"category"},
       text |-> <<>>, category |-> Cat_docs, priority |-> <<>>],
      [is_dict |-> FALSE, keys |-> {},
       text |-> <<>>, category |-> <<>>, priority |-> <<>>] }
AIEntries == {GoodEntry1, GoodEntry2} \cup BadEntries

InsertAt(s, p, e) == SubSeq(s, 1, p - 1) \o <<e>> \o SubSeq(s, p, Len(s))

\* The "items" lists of the replies: every list of up to MaxShortList
\* entries, and the longer lists of up to n entries made of good entries
\* with at most one bad entry among them, at any place.
GoodList(k) == [i \in 1..k |-> IF i % 2 = 1 THEN GoodEntry1 ELSE GoodEntry2]

ItemLists(n) ==
    UNION {[1..k -> AIEntries] : k \in 0..MaxShortList}
    \cup {GoodList(k) : k \in 0..n}
    \cup UNION {{InsertAt(GoodList(k), p, e) : p \in 1..(k + 1), e \in BadEntries} :
                  k \in 0..(n - 1)}

AIReplies(n) ==
    { [json |-> "undecodable", has_items |-> FALSE, iterable |-> FALSE, items |-> <<>>],
      [json |-> "array",       has_items |-> FALSE, iterable |-> FALSE, items |-> <<>>],
      [json |-> "object",      has_items |-> FALSE, iterable |-> FALSE, items |-> <<>>],
      [json |-> "object",      has_items |-> TRUE,  iterable |-> FALSE, items |-> <<>>] }
    \cup { [json |-> "object", has_items |-> TRUE, iterable |-> TRUE, items |-> l] :
              l \in ItemLists(n) }

LLMErrors ==
    { Raise("GroqRateLimitError", "Rate limit exceeded. Please try again later."),
      Raise("GroqAPIError", "Invalid API key or authentication failed"),
      Raise("TimeoutError", "timed out"),
      Raise("ValueError", "boom") }

MinDays == 1
MaxDaysAllowed == 365
ValidLen == 5
DaysSample == {MinDays, LongTripDays, LongTripDays + 1, MaxDaysAllowed}

TripDataResponse(location, days, transport, occasion, notes) ==
    [location |-> location, days |-> days, transport |-> transport,
     occasion |-> occasion, notes |-> notes]

ServiceTrips ==
    { TripDataResponse(StrOfLen(ValidLen), d, t, StrOfLen(ValidLen), None) :
        d \in DaysSample, t \in TransportType }

\* -------------------------------------------------------------------------
\* Actions of the generator
\* -------------------------------------------------------------------------
\* generate_checklist(trip) is called and reaches `await generate_completion`.
CallGenerate(trip) ==
    /\ gen_pc = "idle"
    /\ gen_pc' = "awaiting_llm"
    /\ trip_data' = trip
    /\ UNCHANGED <<ai_outcome, gen_result, http, now, rl_vars, token_vars, login_vars, app_vars>>

\* generate_completion returns or raises; generate_checklist runs to its end.
LLMCompletes(outcome) ==
    /\ gen_pc = "awaiting_llm"
    /\ ai_outcome' = outcome
    /\ gen_result' = generate_checklist(trip_data, outcome)
    /\ gen_pc' = "done"
    /\ UNCHANGED <<trip_data, http, now, rl_vars, token_vars, login_vars, app_vars>>

LLMReturns(replies) ==
    \E reply \in replies : LLMCompletes([kind |-> "return", value |-> reply])

LLMRaises == \E exc \in LLMErrors : LLMCompletes(exc)

\* The caller has its answer; the next call can start.
Finish ==
    /\ \/ gen_pc = "done" /\ http = None
       \/ http # None /\ http.state = "sent"
    /\ gen_pc' = "idle"
    /\ trip_data' = None
    /\ ai_outcome' = None
    /\ gen_result' = None
    /\ http' = None
    /\ UNCHANGED <<now, rl_vars, token_vars, login_vars, app_vars>>

InitGenerator == now = 0 /\ RlIdle /\ GenIdle /\ TokenIdle /\ LoginIdle /\ ProcIdle /\ AppIdle
NextGenerator ==
    \/ \E trip \in ServiceTrips : CallGenerate(trip)
    \/ LLMReturns(AIReplies(MaxAIItems))
    \/ LLMRaises
    \/ Finish
SpecGenerator == InitGenerator /\ [][NextGenerator]_vars


\* -------------------------------------------------------------------------
\* C2: for every TripData (any transport, days in 1..365), when
\* generate_completion raises GroqAPIError or GroqRateLimitError,
\* generate_checklist does not raise and returns a response with at least
\* one item and with the input as its trip_data.
\* -------------------------------------------------------------------------
C2_FallbackFloor ==
    (/\ gen_pc = "done"
     /\ ai_outcome.kind = "raise"
     /\ ai_outcome.error \in {"GroqAPIError", "GroqRateLimitError"}
     /\ trip_data.days \in MinDays..MaxDaysAllowed)
    => /\ gen_result.kind = "return"
       /\ Len(gen_result.items) >= 1
       /\ gen_result.trip_data = trip_data

C2_Witness ==
    /\ gen_pc = "done"
    /\ ai_outcome.kind = "raise"
    /\ ai_outcome.error = "GroqRateLimitError"
    /\ trip_data.days = MaxDaysAllowed
    /\ gen_result.kind = "return"
    /\ Len(gen_result.items) >= 1

\* -------------------------------------------------------------------------
\* C3: generate_checklist returns the fallback list exactly when the AI
\* reply parses to fewer than 5 usable items; when it parses to 5 or more,
\* the response items are the parsed AI items in their original order and
\* nothing of the fallback catalog.
\* -------------------------------------------------------------------------
UsableEntries(reply) ==
    IF reply.json = "object" /\ reply.has_items /\ reply.iterable
    THEN SelectSeq(reply.items,
                   LAMBDA e : e.is_dict /\ {"text", "category"} \subseteq e.keys)
    ELSE <<>>

CatalogTexts ==
    {t.text : t \in {fallback_items[i] : i \in DOMAIN fallback_items}
                    \cup {plane_items[i] : i \in DOMAIN plane_items}
                    \cup {car_items[i] : i \in DOMAIN car_items}
                    \cup {long_trip_items[i] : i \in DOMAIN long_trip_items}}

C3_FallbackExactlyBelowFive ==
    (gen_pc = "done" /\ ai_outcome.kind = "return") =>
        LET usable == UsableEntries(ai_outcome.value)
            items == gen_result.items
        IN  /\ gen_result.kind = "return"
            /\ (items = _generate_fallback_items(trip_data)) <=> (Len(usable) < 5)
            /\ (Len(usable) >= 5) =>
                  /\ Len(items) = Len(usable)
                  /\ \A j \in 1..Len(usable) :
                        /\ items[j].text = strip(usable[j].text)
                        /\ items[j].category = strip(usable[j].category)
                        /\ items[j].text \notin CatalogTexts

\* Five usable entries with a skipped one among them: the AI items are returned.
C3_Witness ==
    /\ gen_pc = "done"
    /\ ai_outcome.kind = "return"
    /\ Len(ai_outcome.value.items) = 6
    /\ Len(UsableEntries(ai_outcome.value)) = 5
    /\ Len(gen_result.items) = 5
    /\ gen_result.items[1].text = strip(T_adapter)

\* -------------------------------------------------------------------------
\* C4: generate_checklist raises ChecklistGenerationError, carrying the
\* original message, when the LLM call raises an exception that is neither
\* a provider error nor a rate-limit error, and no other error ever leaves
\* generate_checklist.
\* -------------------------------------------------------------------------
C4_OnlyGenerationErrorPropagates ==
    gen_pc = "done" =>
        LET unexpected == /\ ai_outcome.kind = "raise"
                          /\ ai_outcome.error \notin {"GroqAPIError", "GroqRateLimitError"}
        IN  /\ unexpected =>
                  gen_result = Raise("ChecklistGenerationError",
                                     <<"Failed to generate checklist: ", ai_outcome.message>>)
            /\ gen_result.kind = "raise" => unexpected

C4_Witness ==
    /\ gen_pc = "done"
    /\ ai_outcome.kind = "raise"
    /\ ai_outcome.error = "TimeoutError"
    /\ gen_result.kind = "raise"
    /\ gen_result.error = "ChecklistGenerationError"

\* =========================================================================
\* POST /generate-checklist (src/app/api/routes.py), for a caller whose
\* bearer token has been accepted
\* =========================================================================
MinTextLen == 2
MaxTextLen == 100
MaxNotesLen == 500

\* The constraints of TripDataRequest (length after trimming).
TripDataRequest_valid(t) ==
    /\ t.location.len >= MinTextLen /\ t.location.len <= MaxTextLen
    /\ t.days >= MinDays /\ t.days <= MaxDaysAllowed
    /\ t.transport \in TransportType
    /\ t.occasion.len >= MinTextLen /\ t.occasion.len <= MaxTextLen
    /\ t.notes # None => t.notes.len <= MaxNotesLen

\* The validation ChecklistGenerationRequest does: trip_data is present and
\* is a TripDataResponse, whose fields are typed but carry no constraint.
TripDataResponse_valid(t) == t.transport \in TransportType

ChecklistGenerationRequest_valid(body) ==
    /\ body.trip_data # None
    /\ TripDataResponse_valid(body.trip_data)

LenSample == {MinTextLen - 1, MinTextLen, MaxTextLen, MaxTextLen + 1}
RouteDays == {MinDays - 1, MinDays, MaxDaysAllowed, MaxDaysAllowed + 1}
NotesSample == {None, StrOfLen(MaxNotesLen), StrOfLen(MaxNotesLen + 1)}

RouteBodies ==
    {[trip_data |-> None]}
    \cup { [trip_data |-> TripDataResponse(StrOfLen(l), d, t, StrOfLen(o), n)] :
             l \in LenSample, d \in RouteDays, t \in TransportType \cup {"spaceship"},
             o \in LenSample, n \in NotesSample }

RouteReplies ==
    { [json |-> "undecodable", has_items |-> FALSE, iterable |-> FALSE, items |-> <<>>],
      [json |-> "object", has_items |-> TRUE, iterable |-> TRUE,
       items |-> GoodList(MinAIItems)] }

HTTP_200_OK == 200
HTTP_422_UNPROCESSABLE_ENTITY == 422
HTTP_500_INTERNAL_SERVER_ERROR == 500
HTTP_503_SERVICE_UNAVAILABLE == 503

\* The request arrives: the body is validated, and a valid body's trip_data
\* is handed to a fresh generator's generate_checklist.
PostGenerateChecklist(body) ==
    /\ gen_pc = "idle"
    /\ http = None
    /\ IF ChecklistGenerationRequest_valid(body)
       THEN /\ http' = [state |-> "pending", status |-> 0]
            /\ gen_pc' = "awaiting_llm"
            /\ trip_data' = body.trip_data
       ELSE /\ http' = [state |-> "sent", status |-> HTTP_422_UNPROCESSABLE_ENTITY]
            /\ UNCHANGED <<gen_pc, trip_data>>
    /\ UNCHANGED <<ai_outcome, gen_result, now, rl_vars, token_vars, login_vars, app_vars>>

\* The except clauses of the route.
RouteStatus(result) ==
    IF result.kind = "return" THEN HTTP_200_OK
    ELSE IF IsInstance(result.error, "ChecklistGenerationError")
    THEN HTTP_500_INTERNAL_SERVER_ERROR
    ELSE IF IsInstance(result.error, "GroqRateLimitError")
    THEN HTTP_503_SERVICE_UNAVAILABLE
    ELSE IF IsInstance(result.error, "GroqAPIError")
    THEN HTTP_503_SERVICE_UNAVAILABLE
    ELSE HTTP_500_INTERNAL_SERVER_ERROR

\* generate_checklist has returned or raised; the route answers.
RouteRespond ==
    /\ gen_pc = "done"
    /\ http # None
    /\ http.state = "pending"
    /\ http' = [state |-> "sent", status |-> RouteStatus(gen_result)]
    /\ UNCHANGED <<gen_pc, trip_data, ai_outcome, gen_result, now, rl_vars,
                   token_vars, login_vars, app_vars>>

InitRoute == now = 0 /\ RlIdle /\ GenIdle /\ TokenIdle /\ LoginIdle /\ ProcIdle /\ AppIdle
NextRoute ==
    \/ \E body \in RouteBodies : PostGenerateChecklist(body)
    \/ LLMReturns(RouteReplies)
    \/ LLMRaises
    \/ RouteRespond
    \/ Finish
SpecRoute == InitRoute /\ [][NextRoute]_vars

\* -------------------------------------------------------------------------
\* C5: POST /generate-checklist answers 422 and never invokes the generator
\* when trip_data violates a TripData constraint (days outside 1..365,
\* location or occasion shorter than 2 or longer than 100 characters, notes
\* longer than 500); so every TripData that reaches generate_checklist
\* satisfies those constraints.
\* -------------------------------------------------------------------------
C5_GeneratorInputValidated ==
    gen_pc # "idle" => TripDataRequest_valid(trip_data)


\* =========================================================================
\* _generate_fallback_items applied to every transport and a range of days
\* =========================================================================
MaxDays == 12            \* trip durations 1..MaxDays are explored, and 365

FallbackTrips ==
    { TripDataResponse(StrOfLen(ValidLen), d, t, StrOfLen(ValidLen), None) :
        d \in (MinDays..MaxDays) \cup {MaxDaysAllowed}, t \in TransportType }

GenerateFallback ==
    /\ gen_pc = "idle"
    /\ gen_result' = [kind |-> "items", items |-> _generate_fallback_items(trip_data)]
    /\ gen_pc' = "done"
    /\ UNCHANGED <<trip_data, ai_outcome, http, now, rl_vars, token_vars, login_vars, app_vars>>

InitFallback ==
    /\ now = 0 /\ RlIdle /\ TokenIdle /\ LoginIdle /\ ProcIdle /\ AppIdle
    /\ gen_pc = "idle"
    /\ trip_data \in FallbackTrips
    /\ ai_outcome = None
    /\ gen_result = None
    /\ http = None
NextFallback == GenerateFallback
SpecFallback == InitFallback /\ [][NextFallback]_vars

Texts(items) == {lower(items[i].text) : i \in DOMAIN items}
Elems(items) == {items[i] : i \in DOMAIN items}

W_extra_underwear == <<"e","x","t","r","a"," ","u","n","d","e","r","w","e","a","r">>
W_laundry         == <<"l","a","u","n","d","r","y">>
W_first_aid       == <<"f","i","r","s","t"," ","a","i","d">>

IsLongTripText(text) ==
    \E word \in {W_extra_underwear, W_laundry, W_first_aid} : Contains(text, word)

C7_LongTripAugmentation ==
    gen_pc = "done" =>
        IF trip_data.days > 7
        THEN \E text \in Texts(gen_result.items) : IsLongTripText(text)
        ELSE \A text \in Texts(gen_result.items) : ~IsLongTripText(text)

\* A long car trip: the cap has cut the list and a long-trip item is still in it.
C7_Witness ==
    /\ gen_pc = "done"
    /\ trip_data.transport = "car"
    /\ trip_data.days = LongTripDays + 1
    /\ Len(customized_items(trip_data)) > FallbackItemCap
    /\ \E text \in Texts(gen_result.items) : Contains(text, W_first_aid)

\* -------------------------------------------------------------------------
\* C8: when baseline + transport + long-trip items number more than 25,
\* exactly 25 items are returned and no returned item has a strictly lower
\* priority than a dropped item; when they number 25 or fewer, all of them
\* are returned in catalog order.
\* -------------------------------------------------------------------------
Rank(p) == CASE p = "high" -> 0 [] p = "medium" -> 1 [] p = "low" -> 2

C8_CapKeepsMostImportant ==
    gen_pc = "done" =>
        LET all == customized_items(trip_data)
            returned == gen_result.items
            dropped == Elems(all) \ Elems(returned)
        IN  IF Len(all) > 25
            THEN /\ Len(returned) = 25
                 /\ Cardinality(Elems(returned)) = 25
                 /\ Elems(returned) \subseteq Elems(all)
                 /\ \A r \in Elems(returned), d \in dropped :
                       ~(Rank(r.priority) > Rank(d.priority))
            ELSE returned = all

\* A long plane trip: 28 items, of which three low-priority ones are dropped.
C8_Witness ==
    /\ gen_pc = "done"
    /\ trip_data.transport = "plane"
    /\ Len(customized_items(trip_data)) = 28
    /\ Len(gen_result.items) = 25
    /\ \E i \in DOMAIN gen_result.items : gen_result.items[i].priority = "low"

\* =========================================================================
\* Token service (src/app/services/auth.py)
\* =========================================================================
U_testuser == <<"t","e","s","t","u","s","e","r">>
U_demo == <<"d","e","m","o">>
Pw_testpass123 == <<"t","e","s","t","p","a","s","s","1","2","3">>
Pw_demopass123 == <<"d","e","m","o","p","a","s","s","1","2","3">>

\* settings.SECRET_KEY and a key the service does not hold
SECRET_KEY == "settings.SECRET_KEY"
ACCESS_TOKEN_EXPIRE_MINUTES == 30
SecondsPerMinute == 60
HTTP_401_UNAUTHORIZED == 401

\* timedelta(minutes=self.access_token_expire_minutes), in ticks
LifetimeTicks == ACCESS_TOKEN_EXPIRE_MINUTES * SecondsPerMinute * TicksPerSecond

\* jwt.encode: a datetime exp claim is written as whole seconds since the
\* epoch (timegm of utctimetuple, which has no sub-second part); the token
\* is signed with the key.
jwt_encode(to_encode, key) ==
    [payload |-> [to_encode EXCEPT !.exp = Floor(to_encode.exp)], key |-> key]

\* AuthService.create_access_token(data, expires_delta) at clock reading t.
\* expires_delta is None or a number of ticks; `if expires_delta:` is false
\* for None and for a zero timedelta.
create_access_token(data, expires_delta, t) ==
    LET expire == IF expires_delta # None /\ expires_delta.ticks # 0
                  THEN t + expires_delta.ticks
                  ELSE t + LifetimeTicks
        to_encode == [k \in (DOMAIN data) \cup {"exp"} |->
                         IF k = "exp" THEN expire ELSE data[k]]
    IN  jwt_encode(to_encode, SECRET_KEY)

\* The instant create_access_token computes as `expire`.
ExpireOf(expires_delta, t) ==
    IF expires_delta # None /\ expires_delta.ticks # 0
    THEN t + expires_delta.ticks
    ELSE t + LifetimeTicks

\* jwt.decode with exp compared by <= (used to test the sensitivity of the
\* expiry properties)
jwt_decode_mut_le(token, key, t) ==
    IF "payload" \notin DOMAIN token THEN [ok |-> FALSE, error |-> "JWTError"]
    ELSE IF token.key # key THEN [ok |-> FALSE, error |-> "JWTError"]
    ELSE IF token.payload.exp <= Floor(t)
         THEN [ok |-> FALSE, error |-> "ExpiredSignatureError"]
         ELSE [ok |-> TRUE, payload |-> token.payload]

\* jwt.decode at clock reading t: text that is no encoded token is refused,
\* the signature is checked, then exp against
\* the clock in whole seconds: expired when exp < now.
jwt_decode(token, key, t) ==
    IF "payload" \notin DOMAIN token THEN [ok |-> FALSE, error |-> "JWTError"]
    ELSE IF token.key # key THEN [ok |-> FALSE, error |-> "JWTError"]
    ELSE IF token.payload.exp < Floor(t)
         THEN [ok |-> FALSE, error |-> "ExpiredSignatureError"]
         ELSE [ok |-> TRUE, payload |-> token.payload]

credentials_exception ==
    [kind |-> "HTTPException",
     status_code |-> HTTP_401_UNAUTHORIZED,
     detail |-> "Could not validate credentials",
     headers |-> [h \in {"WWW-Authenticate"} |-> "Bearer"]]

TokenData(username, user_id, expires_at) ==
    [kind |-> "TokenData", username |-> username, user_id |-> user_id,
     expires_at |-> expires_at]

\* AuthService.verify_token(token) at clock reading t: the TokenData, or the
\* HTTPException it raises.
verify_token(token, t) ==
    LET d == jwt_decode(token, SECRET_KEY, t)
    IN  IF ~d.ok THEN credentials_exception
        ELSE IF "sub" \notin DOMAIN d.payload THEN credentials_exception
        ELSE TokenData(d.payload.sub,
                       IF "user_id" \in DOMAIN d.payload
                       THEN [value |-> d.payload.user_id] ELSE None,
                       d.payload.exp)

\* Inputs of the token service
MaxDelta == 2
TokenDatas == {[sub |-> U_testuser, user_id |-> "123"],
               [user_id |-> "123"]}
ExpiresDeltas == {None} \cup {[ticks |-> d] : d \in (0 - MaxDelta)..MaxDelta}

\* A call of create_access_token.
CreateAccessToken(data, expires_delta) ==
    /\ issued = None
    /\ issued' = [token |-> create_access_token(data, expires_delta, now),
                  data |-> data,
                  expires_delta |-> expires_delta,
                  at |-> now,
                  expire |-> ExpireOf(expires_delta, now)]
    /\ UNCHANGED <<now, verified, rl_vars, gen_vars, login_vars, app_vars>>

\* A call of verify_token on the issued token.
VerifyToken ==
    /\ issued # None
    /\ verified' = [time |-> now, result |-> verify_token(issued.token, now)]
    /\ UNCHANGED <<now, issued, rl_vars, gen_vars, login_vars, app_vars>>

\* The clock moves on by one tick, within MaxTime ticks of the start or of
\* the end of the long wait.
TokenTick ==
    /\ (now % LifetimeTicks) < MaxTime
    /\ now' = now + 1
    /\ UNCHANGED <<rl_vars, gen_vars, token_vars, login_vars, app_vars>>

\* The default lifetime of a token passes.
LongWait ==
    /\ now < LifetimeTicks
    /\ now' = now + LifetimeTicks
    /\ UNCHANGED <<rl_vars, gen_vars, token_vars, login_vars, app_vars>>

InitToken == now = 0 /\ RlIdle /\ GenIdle /\ TokenIdle /\ LoginIdle /\ ProcIdle /\ AppIdle

NextToken ==
    \/ \E data \in TokenDatas, d \in ExpiresDeltas : CreateAccessToken(data, d)
    \/ VerifyToken
    \/ TokenTick
    \/ LongWait

SpecToken == InitToken /\ [][NextToken]_vars

Accepted(r) == r.kind = "TokenData"
Rejected401(r) == r.kind = "HTTPException" /\ r.status_code = 401
HasSub == "sub" \in DOMAIN issued.data
NegativeDelta == issued.expires_delta # None /\ issued.expires_delta.ticks < 0

\* C9 as stated: a token (issued with a sub) is accepted with the same
\* username and user id at every instant before its expiry, rejected with
\* 401 at every instant after its expiry, and a token issued with a negative
\* expiry delta is rejected when verified immediately.
C9_Original_ExactExpiry ==
    (verified # None /\ HasSub) =>
        /\ verified.time < issued.expire =>
              /\ Accepted(verified.result)
              /\ verified.result.username = issued.data.sub
              /\ verified.result.user_id = [value |-> issued.data.user_id]
        /\ verified.time > issued.expire => Rejected401(verified.result)
        /\ (NegativeDelta /\ verified.time = issued.at) =>
              Rejected401(verified.result)

\* C9, amended: a token issued with a sub is accepted, with the same
\* username and user id, at every instant whose whole-second clock reading
\* is not past the whole second of its expiry, hence at every instant before
\* its expiry; it is rejected with 401 at every instant whose whole-second
\* reading is past the whole second of the expiry, hence from one second
\* after the expiry on; a token issued with a negative delta of a second or
\* more is rejected when verified immediately.
C9_TokenLifecycleWholeSeconds ==
    (verified # None /\ HasSub) =>
        /\ Floor(verified.time) <= Floor(issued.expire) =>
              /\ Accepted(verified.result)
              /\ verified.result.username = issued.data.sub
              /\ verified.result.user_id = [value |-> issued.data.user_id]
              /\ verified.result.expires_at = Floor(issued.expire)
        /\ verified.time < issued.expire =>
              Accepted(verified.result)
        /\ Floor(verified.time) > Floor(issued.expire) =>
              Rejected401(verified.result)
        /\ verified.time >= issued.expire + TicksPerSecond =>
              Rejected401(verified.result)
        /\ (NegativeDelta /\ issued.expires_delta.ticks <= 0 - TicksPerSecond
              /\ verified.time >= issued.at) =>
              Rejected401(verified.result)

\* A token with a sub, issued with a negative delta of a second or more, was
\* verified at the instant of its issue and rejected.
C9_Witness ==
    /\ verified # None /\ HasSub
    /\ NegativeDelta /\ issued.expires_delta.ticks <= 0 - TicksPerSecond
    /\ verified.time = issued.at
    /\ Rejected401(verified.result)

\* =========================================================================
\* Login (src/app/models/auth.py, src/app/services/auth.py, routes.py)
\* =========================================================================
MinUsernameLen == 3
MaxUsernameLen == 50
MinPasswordLen == 6
MaxPasswordLen == 100

\* UserCredentials(**body): both fields are required; str_strip_whitespace
\* strips the values before the length constraints are checked.
UserCredentials(body) ==
    IF "username" \notin DOMAIN body \/ "password" \notin DOMAIN body
    THEN [valid |-> FALSE]
    ELSE LET username == strip(body.username)
             password == strip(body.password)
         IN  IF /\ Len(username) >= MinUsernameLen
                /\ Len(username) <= MaxUsernameLen
                /\ Len(password) >= MinPasswordLen
                /\ Len(password) <= MaxPasswordLen
             THEN [valid |-> TRUE, username |-> username, password |-> password]
             ELSE [valid |-> FALSE]

\* pwd_context.hash: a digest that verifies exactly the hashed password.
get_password_hash(password) == [bcrypt |-> password]

\* pwd_context.verify
verify_password(plain_password, hashed_password) ==
    hashed_password = get_password_hash(plain_password)

demo_users ==
    {[id |-> "user_123", username |-> U_testuser, email |-> "test@example.com",
      hashed_password |-> get_password_hash(Pw_testpass123), is_active |-> TRUE],
     [id |-> "user_456", username |-> U_demo, email |-> "demo@example.com",
      hashed_password |-> get_password_hash(Pw_demopass123), is_active |-> TRUE]}

UserResponse(user_data, t) ==
    [id |-> user_data.id, username |-> user_data.username,
     email |-> user_data.email, created_at |-> t,
     is_active |-> user_data.is_active]

\* authenticate_user without the password check (used to test the
\* sensitivity of the login properties)
authenticate_user_mut_nopw(credentials, t) ==
    LET found == {u \in demo_users : u.username = credentials.username}
    IN  IF found = {} THEN None
        ELSE UserResponse(CHOOSE u \in found : TRUE, t)

\* AuthService.authenticate_user(credentials) at clock reading t: the user,
\* or None.
authenticate_user(credentials, t) ==
    LET found == {u \in demo_users : u.username = credentials.username}
    IN  IF found = {} THEN None
        ELSE LET user_data == CHOOSE u \in found : TRUE
             IN  IF ~verify_password(credentials.password,
                                     user_data.hashed_password)
                 THEN None
                 ELSE UserResponse(user_data, t)

\* AuthService.create_token_response(user) at clock reading t
create_token_response(user, t) ==
    [access_token |->
         create_access_token([sub |-> user.username, user_id |-> user.id],
                             [ticks |-> LifetimeTicks], t),
     token_type |-> "bearer",
     expires_in |-> ACCESS_TOKEN_EXPIRE_MINUTES * SecondsPerMinute,
     user |-> user]

\* http_exception_handler (src/main.py): the JSON error envelope; the
\* headers of the exception are not passed to the JSONResponse.
http_exception_handler(exc, path) ==
    [status_code |-> exc.status_code,
     content |-> [error |-> "HTTP_ERROR", message |-> exc.detail,
                  code |-> exc.status_code, path |-> path],
     headers |-> {}]

LoginPath == "/api/v1/auth/login"

\* POST /auth/login with a JSON body, at clock reading t: the response.
login_route(body, t) ==
    LET credentials == UserCredentials(body)
    IN  IF ~credentials.valid
        THEN [status_code |-> HTTP_422_UNPROCESSABLE_ENTITY,
              content |-> [detail |-> "validation errors"],
              headers |-> {}]
        ELSE LET user == authenticate_user(credentials, t)
             IN  IF user = None
                 THEN http_exception_handler(
                          [kind |-> "HTTPException",
                           status_code |-> HTTP_401_UNAUTHORIZED,
                           detail |-> "Incorrect username or password",
                           headers |-> [h \in {"WWW-Authenticate"} |-> "Bearer"]],
                          LoginPath)
                 ELSE [status_code |-> HTTP_200_OK,
                       content |-> create_token_response(user, t),
                       headers |-> {}]

\* Inputs of the login route
Repeat(c, n) == [i \in 1..n |-> c]
Pad(s) == {s, <<" ">> \o s, s \o <<" ">>, <<" ", " ">> \o s \o <<" ">>}
UsernameSample ==
    Pad(U_testuser) \cup Pad(U_demo)
    \cup {<<"T","e","s","t","u","s","e","r">>,
          <<"n","o","b","o","d","y">>,
          <<"a","b">>, <<" ","a","b"," ">>, <<"a"," ","b">>,
          Repeat("x", MaxUsernameLen), Repeat("x", MaxUsernameLen + 1)}
PasswordSample ==
    Pad(Pw_testpass123) \cup {Pw_demopass123, Pw_demopass123 \o <<" ">>}
    \cup {<<"w","r","o","n","g","p","a","s","s">>,
          <<"s","h","o","r","t">>, <<" ","s","h","o","r","t"," ">>,
          Repeat("x", MaxPasswordLen), Repeat("x", MaxPasswordLen + 1)}
LoginBodies ==
    {[username |-> u, password |-> p] : u \in UsernameSample, p \in PasswordSample}
    \cup {[username |-> u] : u \in UsernameSample}
    \cup {[password |-> p] : p \in PasswordSample}

\* One request to POST /auth/login, from validation to the response.
PostLogin(body) ==
    /\ login = None
    /\ login' = [body |-> body, time |-> now, response |-> login_route(body, now)]
    /\ UNCHANGED <<now, rl_vars, gen_vars, token_vars, app_vars>>

\* The response has been sent; the route is ready for the next request.
LoginDone ==
    /\ login # None
    /\ login' = None
    /\ UNCHANGED <<now, rl_vars, gen_vars, token_vars, app_vars>>

InitLogin == now = 0 /\ RlIdle /\ GenIdle /\ TokenIdle /\ LoginIdle /\ ProcIdle /\ AppIdle

NextLogin ==
    \/ \E body \in LoginBodies : PostLogin(body)
    \/ LoginDone
    \/ Tick

SpecLogin == InitLogin /\ [][NextLogin]_vars

DemoPairs == {<<U_testuser, Pw_testpass123>>, <<U_demo, Pw_demopass123>>}
HasBoth(body) == "username" \in DOMAIN body /\ "password" \in DOMAIN body
GenericFailure ==
    [error |-> "HTTP_ERROR", message |-> "Incorrect username or password",
     code |-> 401, path |-> LoginPath]

W_Bearer == <<"B","e","a","r","e","r">>
W_bearer == <<"b","e","a","r","e","r">>
W_Basic == <<"B","a","s","i","c">>
W_invalid_token == <<"i","n","v","a","l","i","d","_","t","o","k","e","n">>
HTTP_403_FORBIDDEN == 403

\* An Authorization header is absent (None) or a string, held as its words
\* (the parts between single spaces); a word is text or an encoded token.
Word(chars) == [word |-> chars]
Header(words) == [words |-> words]

\* fastapi.security.utils.get_authorization_scheme_param: the header value
\* is split at its first space.
get_authorization_scheme_param(authorization) ==
    IF authorization = None \/ authorization.words = <<>>
    THEN [scheme |-> Word(<<>>), credentials |-> <<>>]
    ELSE [scheme |-> Head(authorization.words),
          credentials |-> Tail(authorization.words)]

\* The token string handed on as credentials.credentials: the rest of the
\* header after the scheme; text with a space in it is no encoded token.
CredentialString(rest) ==
    IF Len(rest) = 1 THEN rest[1] ELSE Word(<<" ">>)

IsFalsy(w) == "word" \in DOMAIN w /\ w.word = <<>>
SchemeIsBearer(w) == "word" \in DOMAIN w /\ lower(w.word) = W_bearer

\* HTTPBearer that lets every header with two parts through (used to test
\* the sensitivity of the 403 properties)
HTTPBearer_mut_anyscheme(authorization) ==
    LET p == get_authorization_scheme_param(authorization)
    IN  IF authorization = None \/ IsFalsy(p.scheme) \/ p.credentials = <<>>
        THEN [ok |-> FALSE,
              exc |-> [kind |-> "HTTPException", status_code |-> HTTP_403_FORBIDDEN,
                       detail |-> "Not authenticated", headers |-> None]]
        ELSE [ok |-> TRUE, scheme |-> p.scheme,
              credentials |-> CredentialString(p.credentials)]

\* security = HTTPBearer(): the credentials of the request, or the
\* HTTPException it raises (auto_error is on).
HTTPBearer(authorization) ==
    LET p == get_authorization_scheme_param(authorization)
    IN  IF authorization = None \/ IsFalsy(p.scheme) \/ p.credentials = <<>>
        THEN [ok |-> FALSE,
              exc |-> [kind |-> "HTTPException", status_code |-> HTTP_403_FORBIDDEN,
                       detail |-> "Not authenticated", headers |-> None]]
        ELSE IF ~SchemeIsBearer(p.scheme)
        THEN [ok |-> FALSE,
              exc |-> [kind |-> "HTTPException", status_code |-> HTTP_403_FORBIDDEN,
                       detail |-> "Invalid authentication credentials",
                       headers |-> None]]
        ELSE [ok |-> TRUE, scheme |-> p.scheme,
              credentials |-> CredentialString(p.credentials)]

\* get_current_user at clock reading t: whether verify_token was called, and
\* the TokenData returned or the HTTPException raised.
get_current_user(authorization, t) ==
    LET credentials == HTTPBearer(authorization)
    IN  IF ~credentials.ok
        THEN [verify_called |-> FALSE, result |-> credentials.exc]
        ELSE [verify_called |-> TRUE,
              result |-> verify_token(credentials.credentials, t)]

\* get_current_active_user returns what get_current_user gave it.
get_current_active_user(authorization, t) == get_current_user(authorization, t)

ProtectedRoutes == {"/auth/me", "/protected", "/generate-checklist"}
RoutePath(route) == "/api/v1" \o route

\* get_current_user_info
get_current_user_info(current_user) ==
    [username |-> current_user.username, user_id |-> current_user.user_id,
     expires_at |-> current_user.expires_at,
     message |-> "Authentication successful"]

\* protected_endpoint
protected_endpoint(current_user) ==
    [message |-> <<"Hello ", current_user.username,
                   "! This is a protected endpoint.">>,
     user_id |-> current_user.user_id, access_granted |-> TRUE]

PlainResponse(status_code, content) ==
    [status_code |-> status_code, content |-> content, headers |-> {}]

\* One request to a protected route at clock reading t.  The dependency is
\* resolved first: what it raises is answered by http_exception_handler
\* before the body is looked at.  For /generate-checklist, handler_status is
\* the status the route's handler ends with (see RouteStatus).
ProtectedCall(route, authorization, body, handler_status, t) ==
    LET dep == get_current_active_user(authorization, t)
    IN  IF dep.result.kind = "HTTPException"
        THEN [verify_called |-> dep.verify_called, handler_reached |-> FALSE,
              response |-> http_exception_handler(dep.result, RoutePath(route))]
        ELSE IF route = "/auth/me"
        THEN [verify_called |-> TRUE, handler_reached |-> TRUE,
              response |-> PlainResponse(HTTP_200_OK,
                                         get_current_user_info(dep.result))]
        ELSE IF route = "/protected"
        THEN [verify_called |-> TRUE, handler_reached |-> TRUE,
              response |-> PlainResponse(HTTP_200_OK,
                                         protected_endpoint(dep.result))]
        ELSE IF ~ChecklistGenerationRequest_valid(body)
        THEN [verify_called |-> TRUE, handler_reached |-> FALSE,
              response |-> PlainResponse(HTTP_422_UNPROCESSABLE_ENTITY,
                                         [detail |-> "validation errors"])]
        ELSE [verify_called |-> TRUE, handler_reached |-> TRUE,
              response |-> PlainResponse(handler_status,
                                         [handler |-> "generate_checklist"])]

\* Inputs: the tokens the service may have issued up to MaxIssueAge ticks
\* ago, each with the instant create_access_token computed as its expiry;
\* the same tokens with an altered payload or signed with another key; text
\* that is no token.
MaxIssueAge == 1
IssueInputs ==
    {[data |-> data, delta |-> d] : data \in TokenDatas, d \in ExpiresDeltas}
IssuedTokens(t) ==
    {[token |-> create_access_token(i.data, i.delta, t0),
      expire |-> ExpireOf(i.delta, t0), kind |-> "issued"] :
        i \in {j \in IssueInputs : "sub" \in DOMAIN j.data \/ j.delta = None},
        t0 \in {x \in (t - MaxIssueAge)..t : x >= 0}}
Tampered(tok) ==
    [token |-> [payload |-> [tok.token.payload EXCEPT !.user_id = "456"],
                key |-> "no key"],
     expire |-> tok.expire, kind |-> "tampered"]
Forged(tok) ==
    [token |-> [tok.token EXCEPT !.key = "another key"],
     expire |-> tok.expire, kind |-> "tampered"]
Malformed ==
    [token |-> Word(W_invalid_token), expire |-> 0, kind |-> "malformed"]

\* The headers a client may send with token tok.
HeadersWith(tok) ==
    {Header(<<Word(W_Bearer), tok.token>>),
     Header(<<Word(W_bearer), tok.token>>),
     Header(<<tok.token>>),
     Header(<<Word(W_Basic), tok.token>>),
     Header(<<Word(W_Bearer), tok.token, tok.token>>)}
HeadersWithout ==
    {Header(<<Word(W_Bearer)>>), Header(<<>>), None}

\* The token a client holds and the Authorization header it sends.
Credentials(t) ==
    UNION {{[tok |-> tok, authorization |-> h] : h \in HeadersWith(tok)} :
             tok \in IssuedTokens(t)}
    \cup {[tok |-> x, authorization |-> Header(<<Word(W_Bearer), x.token>>)] :
            x \in {Tampered(tok) : tok \in IssuedTokens(t)}
                   \cup {Forged(tok) : tok \in IssuedTokens(t)}
                   \cup {Malformed}}
    \cup {[tok |-> Malformed, authorization |-> h] : h \in HeadersWithout}

ProtectedBodies ==
    {[trip_data |-> None],
     [trip_data |-> TripDataResponse(StrOfLen(ValidLen), MinDays, "car",
                                     StrOfLen(ValidLen), None)]}
HandlerStatuses ==
    {HTTP_200_OK, HTTP_500_INTERNAL_SERVER_ERROR, HTTP_503_SERVICE_UNAVAILABLE}

\* One request to a protected route, from the dependency to the response.
ProtectedRequest(route, tok, authorization, body, handler_status) ==
    /\ request = None
    /\ request' = [route |-> route, authorization |-> authorization,
                   token |-> tok, body |-> body, time |-> now,
                   outcome |-> ProtectedCall(route, authorization, body,
                                             handler_status, now)]
    /\ UNCHANGED <<now, rl_vars, gen_vars, token_vars, login_vars,
                   session_vars, health_vars, live_vars, call_vars>>

\* The response has been sent.
RequestDone ==
    /\ request # None
    /\ request' = None
    /\ UNCHANGED <<now, rl_vars, gen_vars, token_vars, login_vars,
                   session_vars, health_vars, live_vars, call_vars>>

\* The clock moves on between requests.
AppTick ==
    /\ request = None
    /\ now < MaxTime
    /\ now' = now + 1
    /\ UNCHANGED <<rl_vars, gen_vars, token_vars, login_vars, app_vars>>

InitProtected ==
    now = 0 /\ RlIdle /\ GenIdle /\ TokenIdle /\ LoginIdle /\ ProcIdle /\ AppIdle

\* The bodies sent to /generate-checklist and the status its handler ends
\* with; a body that fails validation never reaches the handler.
ChecklistCalls ==
    {[body |-> [trip_data |-> None], status |-> HTTP_200_OK]}
    \cup {[body |-> b, status |-> st] :
            b \in {x \in ProtectedBodies : ChecklistGenerationRequest_valid(x)},
            st \in HandlerStatuses}

NextProtected ==
    \/ \E route \in ProtectedRoutes, c \in Credentials(now) :
         \/ /\ route # "/generate-checklist"
            /\ ProtectedRequest(route, c.tok, c.authorization, None, HTTP_200_OK)
         \/ /\ route = "/generate-checklist"
            /\ \E cc \in ChecklistCalls :
                 ProtectedRequest(route, c.tok, c.authorization, cc.body,
                                  cc.status)
    \/ RequestDone
    \/ AppTick

SpecProtected == InitProtected /\ [][NextProtected]_vars

\* The classes of requests C11 speaks about.
NoBearerScheme(authorization) ==
    \/ authorization = None
    \/ authorization.words = <<>>
    \/ ~SchemeIsBearer(Head(authorization.words))
CarriesToken(authorization) ==
    /\ authorization # None
    /\ Len(authorization.words) = 2
    /\ SchemeIsBearer(authorization.words[1])
GoodToken(tok) == tok.kind = "issued" /\ "sub" \in DOMAIN tok.token.payload
Status(r) == r.outcome.response.status_code

C12_LoginFailureCarriesChallenge ==
    (login # None /\ UserCredentials(login.body).valid
       /\ authenticate_user(UserCredentials(login.body), login.time) = None) =>
        /\ login.response.status_code = 401
        /\ <<"WWW-Authenticate", "Bearer">> \in login.response.headers

\* =========================================================================
\* Sessions: login, logout and protected requests of one client
\* =========================================================================
LogoutMessage == "Logout successful. Please discard your token on the client side."

\* logout that asks for bearer credentials (used to test the sensitivity of
\* the logout properties)
logout_mut_auth(authorization) ==
    IF HTTPBearer(authorization).ok
    THEN PlainResponse(HTTP_200_OK, [message |-> LogoutMessage])
    ELSE http_exception_handler(HTTPBearer(authorization).exc,
                                RoutePath("/auth/logout"))

\* POST /auth/logout: the route has no dependency and reads nothing of the
\* request.
logout(authorization) ==
    PlainResponse(HTTP_200_OK, [message |-> LogoutMessage])

MaxLogouts == 2
SessionBodies ==
    {[username |-> U_testuser, password |-> Pw_testpass123],
     [username |-> U_testuser, password |-> Pw_demopass123]}

\* The client logs in and keeps the token of a 200 response.
SessionLogin(body) ==
    LET resp == login_route(body, now)
    IN  /\ session = None
        /\ request = None
        /\ session' = IF resp.status_code = HTTP_200_OK
                      THEN [token |-> resp.content.access_token,
                            expire |-> now + LifetimeTicks,
                            accepted |-> FALSE, logouts |-> 0]
                      ELSE session
        /\ UNCHANGED <<now, rl_vars, gen_vars, token_vars, login_vars, request,
                       logout_resp, health_vars, live_vars, call_vars>>

\* The client sends its token to a protected route.
SessionRequest(route) ==
    LET body == IF route = "/generate-checklist"
                THEN [trip_data |-> TripDataResponse(StrOfLen(ValidLen), MinDays,
                                        "car", StrOfLen(ValidLen), None)]
                ELSE None
        authorization == Header(<<Word(W_Bearer), session.token>>)
        outcome == ProtectedCall(route, authorization, body, HTTP_200_OK, now)
    IN  /\ session # None
        /\ request = None
        /\ request' = [route |-> route, authorization |-> authorization,
                       token |-> [token |-> session.token,
                                  expire |-> session.expire, kind |-> "issued"],
                       body |-> body, time |-> now, outcome |-> outcome]
        /\ session' = [session EXCEPT
                          !.accepted = @ \/ outcome.handler_reached]
        /\ UNCHANGED <<now, rl_vars, gen_vars, token_vars, login_vars,
                       logout_resp, health_vars, live_vars, call_vars>>

\* The client (or anyone) calls POST /auth/logout.  The handler assigns
\* nothing; the model counts the logouts that follow an accepted request.
Logout(authorization) ==
    /\ request = None
    /\ logout_resp' = logout(authorization)
    /\ session' = IF session # None /\ session.accepted
                     /\ session.logouts < MaxLogouts
                  THEN [session EXCEPT !.logouts = @ + 1]
                  ELSE session
    /\ UNCHANGED <<now, rl_vars, gen_vars, token_vars, login_vars, request,
                   health_vars, live_vars, call_vars>>

InitSession ==
    now = 0 /\ RlIdle /\ GenIdle /\ TokenIdle /\ LoginIdle /\ ProcIdle /\ AppIdle

NextSession ==
    \/ \E body \in SessionBodies : SessionLogin(body)
    \/ \E route \in ProtectedRoutes : SessionRequest(route)
    \/ \E tok \in {Malformed} : \E h \in HeadersWith(tok) \cup HeadersWithout :
         Logout(h)
    \/ RequestDone
    \/ AppTick
    \/ LongWait

SpecSession == InitSession /\ [][NextSession]_vars

HealthStatus == {"healthy", "unhealthy", "degraded"}

HealthCheck(name, status, message) ==
    [name |-> name, status |-> status, message |-> message]

\* The probes registered at import, in the order of registration.
RegisteredChecks == <<"basic", "groq_api", "memory">>

\* What awaiting a probe under asyncio.wait_for can do: return a HealthCheck
\* (carrying the name the probe itself gives), a bool or something else,
\* raise an exception, or not finish within HEALTH_CHECK_TIMEOUT.
ProbeOutcomes ==
    {[kind |-> "HealthCheck", value |-> HealthCheck("probe", s, "from probe")] :
        s \in HealthStatus}
    \cup {[kind |-> "bool", value |-> b] : b \in BOOLEAN}
    \cup {[kind |-> "other", value |-> v] : v \in {"", "text"}}
    \cup {[kind |-> "raise", value |-> "RuntimeError"],
          [kind |-> "timeout", value |-> "TimeoutError"]}

\* HealthChecker.run_check(name), given what the probe does.
run_check(checks, name, outcome) ==
    IF \A i \in DOMAIN checks : checks[i] # name
    THEN HealthCheck(name, "unhealthy", "not found")
    ELSE IF outcome.kind = "timeout"
    THEN HealthCheck(name, "unhealthy", "Health check timed out")
    ELSE IF outcome.kind = "raise"
    THEN HealthCheck(name, "unhealthy", "Check failed: " \o outcome.value)
    ELSE IF outcome.kind = "HealthCheck"
    THEN outcome.value
    ELSE IF outcome.kind = "bool"
    THEN HealthCheck(name, IF outcome.value THEN "healthy" ELSE "unhealthy",
                     IF outcome.value THEN "OK" ELSE "Check failed")
    ELSE HealthCheck(name, "healthy",
                     IF outcome.value # "" THEN outcome.value ELSE "OK")

\* The loop of run_all_checks with the results taken in reverse (used to
\* test the sensitivity of the per-probe properties)
collect_results_mut_reversed(checks, check_results) ==
    [name \in {checks[i] : i \in DOMAIN checks} |->
        LET i == CHOOSE k \in DOMAIN checks : checks[k] = name
            result == check_results[Len(checks) + 1 - i]
        IN  IF result.kind = "exception"
            THEN HealthCheck(name, "unhealthy", "Check failed with exception")
            ELSE result.value]

\* The loop of run_all_checks over what asyncio.gather returned: the i-th
\* result is stored under the i-th registered name.
collect_results(checks, check_results) ==
    [name \in {checks[i] : i \in DOMAIN checks} |->
        LET i == CHOOSE k \in DOMAIN checks : checks[k] = name
            result == check_results[i]
        IN  IF result.kind = "exception"
            THEN HealthCheck(name, "unhealthy", "Check failed with exception")
            ELSE result.value]

\* get_overall_status that counts degraded as unhealthy (used to test the
\* sensitivity of the readiness properties)
get_overall_status_mut_degraded(results) ==
    IF DOMAIN results = {} THEN "healthy"
    ELSE IF \E n \in DOMAIN results : results[n].status \in {"unhealthy", "degraded"}
    THEN "unhealthy"
    ELSE "healthy"

\* HealthChecker.get_overall_status(results)
get_overall_status(results) ==
    IF DOMAIN results = {} THEN "healthy"
    ELSE LET statuses == {results[n].status : n \in DOMAIN results}
         IN  IF "unhealthy" \in statuses THEN "unhealthy"
             ELSE IF "degraded" \in statuses THEN "degraded"
             ELSE "healthy"

\* get_health_status, once run_all_checks has returned results
get_health_status(results) ==
    [status |-> get_overall_status(results),
     version |-> "settings.VERSION",
     environment |-> environment,
     checks |-> [n \in DOMAIN results |->
                    [status |-> results[n].status,
                     message |-> results[n].message]]]

\* GET /health
health_check(results) == PlainResponse(HTTP_200_OK, get_health_status(results))

\* GET /health/ready
readiness_check(results) ==
    LET health_status == get_health_status(results)
    IN  IF health_status.status = "unhealthy"
        THEN PlainResponse(HTTP_503_SERVICE_UNAVAILABLE,
                           [status |-> "not_ready", details |-> health_status])
        ELSE PlainResponse(HTTP_200_OK, [status |-> "ready"])

HealthRoutes == {"/health", "/health/ready"}
Prefixes(s) == {SubSeq(s, 1, n) : n \in 0..Len(s)}
NoResults == [n \in {} |-> None]

\* A request arrives; run_all_checks creates one run_check task per
\* registered probe and awaits them all.
RunAllChecks(route) ==
    /\ health.pc = "idle"
    /\ health' = [health EXCEPT
                     !.pc = "running", !.route = route,
                     !.tasks = [i \in DOMAIN health.checks |-> None],
                     !.outcomes = [i \in DOMAIN health.checks |-> None],
                     !.results = NoResults, !.response = None]
    /\ UNCHANGED <<now, rl_vars, gen_vars, token_vars, login_vars, request,
                   session_vars, live_vars, call_vars>>

\* The i-th task finishes, in any order with the others: its probe returned,
\* raised or timed out, and run_check returned a record.
ProbeCompletes(i, outcome) ==
    /\ health.pc = "running"
    /\ i \in DOMAIN health.tasks
    /\ health.tasks[i] = None
    /\ health' = [health EXCEPT
                     !.tasks[i] = [kind |-> "result",
                                   value |-> run_check(health.checks,
                                                       health.checks[i], outcome)],
                     !.outcomes[i] = outcome]
    /\ UNCHANGED <<now, rl_vars, gen_vars, token_vars, login_vars, request,
                   session_vars, live_vars, call_vars>>

\* All tasks are done: gather returns, the loop fills results, the results
\* are cached, and run_all_checks returns.
GatherReturns ==
    /\ health.pc = "running"
    /\ \A i \in DOMAIN health.tasks : health.tasks[i] # None
    /\ LET results == collect_results(health.checks, health.tasks)
       IN  health' = [health EXCEPT !.pc = "returned", !.results = results,
                                    !.last_results = results]
    /\ UNCHANGED <<now, rl_vars, gen_vars, token_vars, login_vars, request,
                   session_vars, live_vars, call_vars>>

\* The route builds its response from the results.
HealthRespond ==
    /\ health.pc = "returned"
    /\ health' = [health EXCEPT
                     !.pc = "responded",
                     !.response = IF health.route = "/health/ready"
                                  THEN readiness_check(health.results)
                                  ELSE health_check(health.results)]
    /\ UNCHANGED <<now, rl_vars, gen_vars, token_vars, login_vars, request,
                   session_vars, live_vars, call_vars>>

InitHealth ==
    /\ now = 0 /\ RlIdle /\ GenIdle /\ TokenIdle /\ LoginIdle /\ ProcIdle
    /\ SessionIdle /\ LiveIdle /\ CallIdle
    /\ \E checks \in Prefixes(RegisteredChecks) :
         health = [checks |-> checks, pc |-> "idle", route |-> "/health",
                   tasks |-> <<>>, outcomes |-> <<>>, results |-> NoResults,
                   last_results |-> NoResults, response |-> None]

NextHealth ==
    \/ \E route \in HealthRoutes : RunAllChecks(route)
    \/ \E i \in DOMAIN RegisteredChecks, outcome \in ProbeOutcomes :
         ProbeCompletes(i, outcome)
    \/ GatherReturns
    \/ HealthRespond

SpecHealth == InitHealth /\ [][NextHealth]_vars

RegisteredNames == {health.checks[i] : i \in DOMAIN health.checks}
ResultStatuses == {health.results[n].status : n \in DOMAIN health.results}

\* C14: GET /health/ready answers 503 with status not_ready and the full
\* health report exactly when at least one probe result is unhealthy, and
\* 200 with status ready otherwise (all healthy, some degraded, no probes);
\* the aggregate status is unhealthy if any result is unhealthy, else
\* degraded if any is degraded, else healthy.
C14_ReadinessExactlyWhenNoneUnhealthy ==
    (health # None /\ health.pc = "responded") =>
        LET resp == health.response
            aggregate == IF health.route = "/health/ready"
                         THEN get_health_status(health.results).status
                         ELSE resp.content.status
        IN  /\ aggregate = (IF "unhealthy" \in ResultStatuses THEN "unhealthy"
                            ELSE IF "degraded" \in ResultStatuses THEN "degraded"
                            ELSE "healthy")
            /\ health.route = "/health/ready" =>
                  /\ resp.status_code = 503 <=> "unhealthy" \in ResultStatuses
                  /\ resp.status_code = 503 =>
                        /\ resp.content.status = "not_ready"
                        /\ resp.content.details.status = "unhealthy"
                        /\ DOMAIN resp.content.details.checks = RegisteredNames
                        /\ \A n \in RegisteredNames :
                              resp.content.details.checks[n].status
                                 = health.results[n].status
                  /\ resp.status_code # 503 =>
                        /\ resp.status_code = 200
                        /\ resp.content.status = "ready"

\* One degraded and no unhealthy result among three: ready, 200.
C14_Witness ==
    /\ health # None /\ health.pc = "responded"
    /\ health.route = "/health/ready"
    /\ Len(health.checks) = 3
    /\ ResultStatuses = {"healthy", "degraded"}
    /\ health.response.status_code = 200

ExpectedStatus(outcome) ==
    CASE outcome.kind \in {"raise", "timeout"} -> "unhealthy"
      [] outcome.kind = "HealthCheck" -> outcome.value.status
      [] outcome.kind = "bool" -> (IF outcome.value THEN "healthy" ELSE "unhealthy")
      [] OTHER -> "healthy"

\* C15: run_all_checks, its probes finishing in any order, returns exactly
\* one record per registered probe, under the probe's registered name; the
\* record of a probe depends on what that probe did alone: unhealthy when it
\* raised or timed out, otherwise the status it reported; and run_all_checks
\* returns (it does not raise) whatever the probes did.
C15_OneRecordPerProbe ==
    (health # None /\ health.pc \in {"returned", "responded"}) =>
        /\ DOMAIN health.results = RegisteredNames
        /\ health.last_results = health.results
        /\ \A i \in DOMAIN health.checks :
              LET record == health.results[health.checks[i]]
              IN  /\ record.status = ExpectedStatus(health.outcomes[i])
                  /\ health.outcomes[i].kind \in {"raise", "timeout"} =>
                        record.name = health.checks[i]

\* The second probe raised, the third timed out after the first had
\* returned healthy: each has its own record.
C15_Witness ==
    /\ health # None /\ health.pc = "returned"
    /\ Len(health.checks) = 3
    /\ health.outcomes[1].kind = "bool" /\ health.outcomes[1].value
    /\ health.outcomes[2].kind = "raise"
    /\ health.outcomes[3].kind = "timeout"
    /\ health.results["basic"].status = "healthy"
    /\ health.results["groq_api"].status = "unhealthy"
    /\ health.results["memory"].status = "unhealthy"

\* =========================================================================
\* The application: middleware around the routes (src/main.py)
\* =========================================================================
E_production == <<"p","r","o","d","u","c","t","i","o","n">>
E_Production == <<"P","r","o","d","u","c","t","i","o","n">>
E_staging == <<"s","t","a","g","i","n","g">>
Environments == {E_development, E_production, E_Production, E_staging}

\* Settings.is_production, Settings.is_development
is_production(env) == lower(env) = E_production
is_development(env) == lower(env) = E_development

HTTP_413_REQUEST_ENTITY_TOO_LARGE == 413
HTTP_429_TOO_MANY_REQUESTS == 429
MaxRequestSize == 10485760

\* The paths rate_limit_middleware lets through uncounted.
RateLimitSkipPaths == {"/health", "/", "/docs", "/redoc", "/openapi.json"}

\* The routes without dependency that the requests below go to.
AppPaths == {"/health/live", "/", "/api/v1/auth/logout"}

\* liveness_check
liveness_check(t) ==
    PlainResponse(HTTP_200_OK, [status |-> "alive", timestamp |-> t])

\* root
root == PlainResponse(HTTP_200_OK, [message |-> "AI Trip Checklist API is running"])

RouteResponse(path, t) ==
    IF path = "/health/live" THEN liveness_check(t)
    ELSE IF path = "/" THEN root
    ELSE logout(None)

DEVELOPMENT_HEADERS ==
    {<<"X-Frame-Options", "SAMEORIGIN">>, <<"X-Content-Type-Options", "nosniff">>,
     <<"X-XSS-Protection", "1; mode=block">>}
SECURITY_HEADERS ==
    {<<"X-Frame-Options", "DENY">>, <<"X-Content-Type-Options", "nosniff">>,
     <<"X-XSS-Protection", "1; mode=block">>,
     <<"Referrer-Policy", "strict-origin-when-cross-origin">>,
     <<"Content-Security-Policy", "default-src 'self'; ...">>,
     <<"Permissions-Policy", "geolocation=(), ...">>}

\* response.headers[key] = value for every pair of added
SetHeaders(response, added) ==
    [response EXCEPT !.headers =
        {h \in response.headers : \A a \in added : a[1] # h[1]} \cup added]

\* security_headers_middleware around the route (requests come over http)
security_headers_middleware(env, path, t) ==
    SetHeaders(RouteResponse(path, t),
               (IF is_production(env) THEN SECURITY_HEADERS ELSE DEVELOPMENT_HEADERS)
               \cup {<<"Server", "AI-Trip-Checklist-API">>})

\* request_size_validator around security_headers_middleware; content_length
\* is the Content-Length header as a number, or None.
request_size_validator(env, path, content_length, t) ==
    IF content_length # None /\ content_length.value > MaxRequestSize
    THEN [status_code |-> HTTP_413_REQUEST_ENTITY_TOO_LARGE,
          content |-> [error |-> "REQUEST_TOO_LARGE",
                       message |-> "Request body too large"],
          headers |-> {}]
    ELSE security_headers_middleware(env, path, t)

HeaderPairs(headers) ==
    {<<"X-RateLimit-Limit", headers.limit>>,
     <<"X-RateLimit-Remaining", headers.remaining>>,
     <<"X-RateLimit-Reset", headers.reset>>,
     <<"X-RateLimit-Window", headers.window>>}

\* rate_limit_middleware that skips every path (used to test the
\* sensitivity of the quota properties)
rate_limit_middleware_mut_skip_all(entry, env, path, content_length, t) ==
    [entry |-> entry,
     response |-> request_size_validator(env, path, content_length, t)]

\* rate_limit_middleware around request_size_validator, for a client whose
\* entry in rate_limiter.clients is `entry`: the entry afterwards and the
\* response.
rate_limit_middleware(entry, env, path, content_length, t) ==
    IF path \in RateLimitSkipPaths
    THEN [entry |-> entry,
          response |-> request_size_validator(env, path, content_length, t)]
    ELSE LET r == is_allowed(entry, t)
         IN  IF ~r.allowed
             THEN [entry |-> r.entry,
                   response |-> [status_code |-> HTTP_429_TOO_MANY_REQUESTS,
                                 content |-> [error |-> "RATE_LIMIT_EXCEEDED",
                                              code |-> 429],
                                 headers |-> HeaderPairs(r.headers)]]
             ELSE [entry |-> r.entry,
                   response |-> SetHeaders(
                       request_size_validator(env, path, content_length, t),
                       HeaderPairs(r.headers))]

ContentLengths == {None, [value |-> MaxRequestSize + 1]}

\* log_requests around the rest: the record it logs for the response that
\* comes back to it.
log_requests(path, response) ==
    [path |-> path, status_code |-> response.status_code]

\* One request of client c, through the middleware to the route and back.
\* The rate limiting middleware is installed in production only. counted
\* tells whether the request changed the client's entry in
\* rate_limiter.clients.
AppRequest(c, path, content_length) ==
    /\ live = None
    /\ IF is_production(environment)
       THEN LET m == rate_limit_middleware(Entry(c), environment, path,
                                           content_length, now)
            IN  /\ clients' = IF m.entry = None THEN clients
                              ELSE [x \in (DOMAIN clients) \cup {c} |->
                                       IF x = c THEN m.entry ELSE clients[x]]
                /\ live' = [client |-> c, path |-> path,
                            content_length |-> content_length,
                            response |-> m.response,
                            counted |-> m.entry # Entry(c),
                            log |-> log_requests(path, m.response)]
       ELSE LET r == request_size_validator(environment, path, content_length, now)
            IN  /\ UNCHANGED clients
                /\ live' = [client |-> c, path |-> path,
                            content_length |-> content_length,
                            response |-> r,
                            counted |-> FALSE,
                            log |-> log_requests(path, r)]
    /\ UNCHANGED <<now, rl_last, rl_window, gen_vars, token_vars, login_vars,
                   request, session_vars, health_vars, environment, call_vars>>

\* The response has been sent.
AppRequestDone ==
    /\ live # None
    /\ live' = None
    /\ UNCHANGED <<now, rl_vars, gen_vars, token_vars, login_vars,
                   request, session_vars, health_vars, environment, call_vars>>

InitApp ==
    /\ now = 0 /\ RlIdle /\ GenIdle /\ TokenIdle /\ LoginIdle /\ ProcIdle
    /\ SessionIdle /\ HealthIdle /\ CallIdle
    /\ environment \in Environments
    /\ live = None

NextApp ==
    \/ \E c \in ClientIds, path \in AppPaths, cl \in ContentLengths :
         AppRequest(c, path, cl)
    \/ AppRequestDone
    \/ Tick

SpecApp == InitApp /\ [][NextApp]_vars

\* C16: GET /health/live answers 200 with status "alive" in every
\* environment, whatever requests the same client sent before (also in
\* production after the client has used up its quota for the window).
C16_LivenessUnconditional ==
    (live # None /\ live.path = "/health/live"
       /\ (live.content_length = None
           \/ live.content_length.value <= MaxRequestSize)) =>
        /\ live.response.status_code = 200
        /\ live.response.content.status = "alive"

\* =========================================================================
\* Lengths of the items generate_checklist returns
\* =========================================================================
MinItemTextLen == 2
MaxItemTextLen == 200
MinCategoryLen == 1
MaxCategoryLen == 50

\* Entries with text and category, one of them blank or of a length at the
\* edge of or outside 2..200 resp. 1..50.
EdgeEntry(text, category) ==
    [is_dict |-> TRUE, keys |-> {"text", "category"},
     text |-> text, category |-> category, priority |-> <<>>]
EdgeEntries ==
    {EdgeEntry(<<" ">>, Cat_docs),
     EdgeEntry(<<"x">>, Cat_docs),
     EdgeEntry(Repeat("x", MaxItemTextLen), Cat_docs),
     EdgeEntry(Repeat("x", MaxItemTextLen + 1), Cat_docs),
     EdgeEntry(T_map, <<" ", " ">>),
     EdgeEntry(T_map, Repeat("c", MaxCategoryLen)),
     EdgeEntry(T_map, Repeat("c", MaxCategoryLen + 1))}

\* Replies whose "items" are good entries with one edge entry among them,
\* too few or enough to be used.
EdgeReplies ==
    {[json |-> "object", has_items |-> TRUE, iterable |-> TRUE, items |-> l] :
        l \in {GoodList(k) : k \in (MinAIItems - 1)..MinAIItems}
              \cup UNION {{InsertAt(GoodList(k), p, e) :
                              p \in {1, k + 1}, e \in EdgeEntries} :
                            k \in (MinAIItems - 2)..(MinAIItems - 1)}}

InitItems == now = 0 /\ RlIdle /\ GenIdle /\ TokenIdle /\ LoginIdle /\ ProcIdle /\ AppIdle
NextItems ==
    \/ \E trip \in ServiceTrips : CallGenerate(trip)
    \/ LLMReturns(EdgeReplies)
    \/ LLMRaises
    \/ Finish
SpecItems == InitItems /\ [][NextItems]_vars

\* C17: every item of a response returned by generate_checklist, parsed from
\* the AI reply or taken from the fallback catalog, has a text of 2 to 200
\* characters and a category of 1 to 50 characters.
C17_ItemLengths ==
    (gen_pc = "done" /\ gen_result.kind = "return") =>
        \A i \in DOMAIN gen_result.items :
            /\ Len(gen_result.items[i].text) >= MinItemTextLen
            /\ Len(gen_result.items[i].text) <= MaxItemTextLen
            /\ Len(gen_result.items[i].category) >= MinCategoryLen
            /\ Len(gen_result.items[i].category) <= MaxCategoryLen

\* =========================================================================
\* _parse_priority on its own (src/app/services/checklist_generator.py)
\* =========================================================================
\* str.upper() and str.capitalize(), to write the inputs
upper(s) ==
    [i \in 1..Len(s) |->
        IF \E k \in DOMAIN LowerOf : LowerOf[k] = s[i]
        THEN CHOOSE k \in DOMAIN LowerOf : LowerOf[k] = s[i]
        ELSE s[i]]
capitalize(s) ==
    [i \in 1..Len(s) |-> IF i = 1 THEN upper(s)[1] ELSE lower(s)[i]]

\* The synonyms the AI may use, by name.
PriorityWords ==
    [high |-> P_high, essential |-> P_essential, critical |-> P_critical,
     important |-> P_important, low |-> P_low, optional |-> P_optional,
     nice_to_have |-> P_nice, medium |-> P_medium,
     unknown |-> <<"u","n","k","n","o","w","n">>,
     highest |-> <<"h","i","g","h","e","s","t">>,
     lo |-> <<"l","o">>,
     nice_to_have_spaced |-> <<"n","i","c","e"," ","t","o"," ","h","a","v","e">>,
     empty |-> <<>>]

Cased(s) == {s, upper(s), capitalize(s)}
Padded(s) == {s, <<" ">> \o s, s \o <<" ">>, <<" ", " ">> \o s \o <<" ">>}

\* The inputs: each word, in three casings, with and without blanks around.
PriorityInputs ==
    UNION {UNION {{[word |-> w, arg |-> p] : p \in Padded(c)} :
                    c \in Cased(PriorityWords[w])} :
             w \in DOMAIN PriorityWords}

\* A call of _parse_priority.
ParsePriority ==
    /\ call.fn = "_parse_priority"
    /\ call.result = None
    /\ call' = [call EXCEPT !.result = [value |-> _parse_priority(call.input.arg)]]
    /\ UNCHANGED <<now, rl_vars, gen_vars, token_vars, login_vars, request,
                   session_vars, health_vars, live_vars, proc_vars>>

InitPriority ==
    /\ now = 0 /\ RlIdle /\ GenIdle /\ TokenIdle /\ LoginIdle /\ ProcIdle
    /\ SessionIdle /\ HealthIdle /\ LiveIdle
    /\ \E i \in PriorityInputs :
         call = [fn |-> "_parse_priority", input |-> i, result |-> None]

NextPriority == ParsePriority

SpecPriority == InitPriority /\ [][NextPriority]_vars

\* C18: _parse_priority returns high for high, essential, critical and
\* important, low for low, optional and nice-to-have, in any casing and with
\* blanks around, and medium for every other input, the empty string
\* included.
C18_PrioritySynonyms ==
    (call # None /\ call.fn = "_parse_priority" /\ call.result # None) =>
        call.result.value =
            (IF call.input.word \in {"high", "essential", "critical", "important"}
             THEN "high"
             ELSE IF call.input.word \in {"low", "optional", "nice_to_have"}
             THEN "low"
             ELSE "medium")

\* " NICE-TO-HAVE " with blanks around was parsed to low.
C18_Witness ==
    /\ call # None /\ call.fn = "_parse_priority" /\ call.result # None
    /\ call.input.arg = <<" ", " ">> \o upper(P_nice) \o <<" ">>
    /\ call.result.value = "low"

\* =========================================================================
\* Settings.get_cors_origins (src/app/core/config.py)
\* =========================================================================
LocalhostPrefix == <<"h", "t", "t", "p", ":", "/", "/", "l", "o", "c", "a", "l", "h", "o", "s", "t">>

\* str.startswith
startswith(s, prefix) ==
    /\ Len(s) >= Len(prefix)
    /\ \A i \in 1..Len(prefix) : s[i] = prefix[i]

\* str.split(sep) for a one-character separator: the pieces between the
\* separators, empty pieces included.
RECURSIVE split(_, _)
split(s, sep) ==
    IF \A i \in 1..Len(s) : s[i] # sep
    THEN <<s>>
    ELSE LET k == CHOOSE i \in 1..Len(s) :
                      s[i] = sep /\ \A j \in 1..(i - 1) : s[j] # sep
         IN  <<SubSeq(s, 1, k - 1)>> \o split(SubSeq(s, k + 1, Len(s)), sep)

\* Settings.allowed_origins_list
allowed_origins_list(ALLOWED_ORIGINS) ==
    LET pieces == split(ALLOWED_ORIGINS, ",")
    IN  [i \in 1..Len(pieces) |-> strip(pieces[i])]

\* (mutant) the localhost origins kept in production
get_cors_origins_mut_nofilter(env, ALLOWED_ORIGINS) ==
    allowed_origins_list(ALLOWED_ORIGINS)

\* Settings.get_cors_origins
get_cors_origins(env, ALLOWED_ORIGINS) ==
    IF is_production(env)
    THEN LET origins == allowed_origins_list(ALLOWED_ORIGINS)
             keep(origin) == ~startswith(origin, LocalhostPrefix)
         IN  SelectSeq(origins, keep)
    ELSE allowed_origins_list(ALLOWED_ORIGINS)

\* The origins a deployment may configure, by name.
OriginTexts ==
    [local3000 |-> <<"h", "t", "t", "p", ":", "/", "/", "l", "o", "c", "a", "l", "h", "o", "s", "t", ":", "3", "0", "0", "0">>,
     localbare |-> <<"h", "t", "t", "p", ":", "/", "/", "l", "o", "c", "a", "l", "h", "o", "s", "t">>,
     localevil |-> <<"h", "t", "t", "p", ":", "/", "/", "l", "o", "c", "a", "l", "h", "o", "s", "t", ".", "e", "x", "a", "m", "p", "l", "e", ".", "c", "o", "m">>,
     app |-> <<"h", "t", "t", "p", "s", ":", "/", "/", "a", "p", "p", ".", "e", "x", "a", "m", "p", "l", "e", ".", "c", "o", "m">>,
     expo |-> <<"e", "x", "p", ":", "/", "/", "l", "o", "c", "a", "l", "h", "o", "s", "t", ":", "1", "9", "0", "0", "0">>,
     localtls |-> <<"h", "t", "t", "p", "s", ":", "/", "/", "l", "o", "c", "a", "l", "h", "o", "s", "t", ":", "3", "0", "0", "0">>,
     localcaps |-> <<"h", "t", "t", "p", ":", "/", "/", "L", "O", "C", "A", "L", "H", "O", "S", "T", ":", "3", "0", "0", "0">>,
     loopback |-> <<"h", "t", "t", "p", ":", "/", "/", "1", "2", "7", ".", "0", ".", "0", ".", "1", ":", "3", "0", "0", "0">>,
     empty |-> <<>>]

\* The names of those that begin with http://localhost.
LocalhostOrigins == {"local3000", "localbare", "localevil"}

MaxOrigins == 2

\* The lists of at most MaxOrigins names.
OriginLists ==
    UNION {[1..n -> DOMAIN OriginTexts] : n \in 1..MaxOrigins}

\* The ALLOWED_ORIGINS setting that lists the named origins: joined by
\* commas, with blanks around each when spaced.
RECURSIVE JoinOrigins(_, _)
JoinOrigins(names, spaced) ==
    LET piece(n) == IF spaced THEN <<" ">> \o OriginTexts[n] \o <<" ">>
                    ELSE OriginTexts[n]
    IN  IF Len(names) = 1 THEN piece(names[1])
        ELSE piece(names[1]) \o <<",">> \o JoinOrigins(Tail(names), spaced)

\* A call of get_cors_origins.
GetCorsOrigins ==
    /\ call.fn = "get_cors_origins"
    /\ call.result = None
    /\ call' = [call EXCEPT !.result =
                   [value |-> get_cors_origins(environment, call.input.ALLOWED_ORIGINS)]]
    /\ UNCHANGED <<now, rl_vars, gen_vars, token_vars, login_vars, request,
                   session_vars, health_vars, live_vars, proc_vars>>

InitCors ==
    /\ now = 0 /\ RlIdle /\ GenIdle /\ TokenIdle /\ LoginIdle /\ ProcIdle
    /\ SessionIdle /\ HealthIdle
    /\ environment \in Environments /\ live = None
    /\ \E names \in OriginLists, spaced \in BOOLEAN :
         call = [fn |-> "get_cors_origins",
                 input |-> [names |-> names,
                            ALLOWED_ORIGINS |-> JoinOrigins(names, spaced)],
                 result |-> None]

NextCors == GetCorsOrigins

SpecCors == InitCors /\ [][NextCors]_vars

\* The texts of the named origins, in order.
TextsOf(names) == [i \in 1..Len(names) |-> OriginTexts[names[i]]]

\* C19: in production get_cors_origins returns the configured origins
\* without those that begin with http://localhost, the others in their
\* order; in any other environment it returns the configured list unchanged.
C19_CorsOriginsFiltered ==
    (call # None /\ call.fn = "get_cors_origins" /\ call.result # None) =>
        LET names == call.input.names
            others(n) == n \notin LocalhostOrigins
        IN  call.result.value =
                (IF is_production(environment)
                 THEN TextsOf(SelectSeq(names, others))
                 ELSE TextsOf(names))

\* In production, http://localhost:3000 before https://app.example.com was
\* filtered to the second alone.
C19_Witness ==
    /\ call # None /\ call.fn = "get_cors_origins" /\ call.result # None
    /\ is_production(environment)
    /\ call.input.names = <<"local3000", "app">>
    /\ call.result.value = <<OriginTexts["app"]>>

\* =========================================================================
\* PaginatedResponse.create (src/app/models/common.py)
\* =========================================================================
MinPage == 1
MinLimit == 1
MaxLimit == 100

\* PaginationParams: page >= 1, 1 <= limit <= 100, else a validation error.
PaginationParams(page, limit) ==
    IF page >= MinPage /\ limit >= MinLimit /\ limit <= MaxLimit
    THEN [ok |-> TRUE, page |-> page, limit |-> limit]
    ELSE [ok |-> FALSE, error |-> "ValidationError"]

\* (mutant) the page count rounded down
PaginatedResponse_create_mut_floor(total, pagination) ==
    LET pages == total \div pagination.limit
    IN  [total |-> total,
         page |-> pagination.page,
         limit |-> pagination.limit,
         pages |-> pages,
         has_next |-> pagination.page < pages,
         has_prev |-> pagination.page > 1]

\* PaginatedResponse.create (items are passed through and left out)
PaginatedResponse_create(total, pagination) ==
    LET pages == (total + pagination.limit - 1) \div pagination.limit
    IN  [total |-> total,
         page |-> pagination.page,
         limit |-> pagination.limit,
         pages |-> pages,
         has_next |-> pagination.page < pages,
         has_prev |-> pagination.page > 1]

MaxTotal == 90
MaxPage == 6

\* Construction of the pagination parameters, then create.
CreatePaginated ==
    /\ call.fn = "PaginatedResponse.create"
    /\ call.result = None
    /\ LET pagination == PaginationParams(call.input.page, call.input.limit)
       IN  call' = [call EXCEPT !.result =
                       IF pagination.ok
                       THEN [value |-> PaginatedResponse_create(call.input.total, pagination)]
                       ELSE [error |-> pagination.error]]
    /\ UNCHANGED <<now, rl_vars, gen_vars, token_vars, login_vars, request,
                   session_vars, health_vars, live_vars, proc_vars>>

InitPagination ==
    /\ now = 0 /\ RlIdle /\ GenIdle /\ TokenIdle /\ LoginIdle /\ ProcIdle
    /\ SessionIdle /\ HealthIdle /\ LiveIdle
    /\ \E total \in 0..MaxTotal, page \in 0..MaxPage, limit \in 0..(MaxLimit + 1) :
         call = [fn |-> "PaginatedResponse.create",
                 input |-> [total |-> total, page |-> page, limit |-> limit],
                 result |-> None]

NextPagination == CreatePaginated

SpecPagination == InitPagination /\ [][NextPagination]_vars

\* C20: for total >= 0, page >= 1 and limit in 1..100, create yields
\* pages = ceil(total / limit) (the least count of pages of limit items that
\* hold total items), has_next = (page < pages) and has_prev = (page > 1);
\* total = 0 yields pages = 0 and has_next = FALSE.
C20_PageArithmetic ==
    (/\ call # None /\ call.fn = "PaginatedResponse.create" /\ call.result # None
     /\ call.input.total >= 0 /\ call.input.page >= 1
     /\ call.input.limit \in 1..100) =>
        /\ "value" \in DOMAIN call.result
        /\ LET r == call.result.value
               total == call.input.total
               page == call.input.page
               limit == call.input.limit
           IN  /\ r.pages >= 0
               /\ r.pages * limit >= total
               /\ r.pages > 0 => (r.pages - 1) * limit < total
               /\ r.has_next = (page < r.pages)
               /\ r.has_prev = (page > 1)
               /\ total = 0 => (r.pages = 0 /\ r.has_next = FALSE)

\* 85 items, page 2, limit 20: 5 pages, a next and a previous page.
C20_Witness ==
    /\ call # None /\ call.fn = "PaginatedResponse.create" /\ call.result # None
    /\ call.input = [total |-> 85, page |-> 2, limit |-> 20]
    /\ "value" \in DOMAIN call.result
    /\ call.result.value.pages = 5
    /\ call.result.value.has_next
    /\ call.result.value.has_prev

Oversized(content_length) ==
    content_length # None /\ content_length.value > MaxRequestSize

HasServerHeader(response) == \E h \in response.headers : h[1] = "Server"

C22_EveryResponseHasServerHeader ==
    live # None =>
        /\ <<"Server", "AI-Trip-Checklist-API">> \in live.response.headers
        /\ (IF is_production(environment) THEN SECURITY_HEADERS
            ELSE DEVELOPMENT_HEADERS) \subseteq live.response.headers

\* =========================================================================
\* Concurrent users of the rate limiter (src/app/core/rate_limiter.py):
\* requests that await is_allowed and the cleanup task that awaits
\* cleanup_expired_clients, all taking RateLimiter._lock
\* =========================================================================
CallerIds == {"r1", "r2"}
SweeperId == "cleanup"
TaskIds == CallerIds \cup {SweeperId}

\* The entries a sweep at current_time deletes from clients.
\* (mutant) every entry taken as expired
expired_clients_mut_all(cl, current_time) ==
    DOMAIN cl

\* (mutant) an entry taken as expired after half a window
expired_clients_mut_half(cl, current_time) ==
    {c \in DOMAIN cl : (current_time - cl[c].window_start) * 2 >= WindowTicks}

expired_clients(cl, current_time) ==
    {c \in DOMAIN cl : current_time - cl[c].window_start >= WindowTicks * 2}

IdleTask == [pc |-> "idle"]

\* A request calls is_allowed(c): the coroutine is at "async with self._lock".
CallIsAllowed(t, c) ==
    /\ tasks[t].pc = "idle"
    /\ tasks' = [tasks EXCEPT ![t] = [pc |-> "at_lock", client |-> c]]
    /\ UNCHANGED <<now, rl_vars, lock, rl_allowed, process, gen_run, shadow, gen_vars, token_vars,
                   login_vars, request, session_vars, health_vars, live_vars, call>>

\* The cleanup task calls cleanup_expired_clients.
CallCleanup ==
    /\ tasks[SweeperId].pc = "idle"
    /\ tasks' = [tasks EXCEPT ![SweeperId] = [pc |-> "at_lock"]]
    /\ UNCHANGED <<now, rl_vars, lock, rl_allowed, process, gen_run, shadow, gen_vars, token_vars,
                   login_vars, request, session_vars, health_vars, live_vars, call>>

\* A coroutine gets the lock, which is free, and reads the clock.
Acquire(t) ==
    /\ tasks[t].pc = "at_lock"
    /\ lock = None
    /\ t \in CallerIds =>
           NextWindow(rl_window[tasks[t].client], now).calls <= MaxCallsPerWindow
    /\ lock' = [holder |-> t]
    /\ tasks' = [tasks EXCEPT ![t] = [@ EXCEPT !.pc = "locked"] @@
                                     [current_time |-> now]]
    /\ UNCHANGED <<now, rl_vars, rl_allowed, process, gen_run, shadow, gen_vars, token_vars,
                   login_vars, request, session_vars, health_vars, live_vars, call>>

\* The body of is_allowed under the lock, and the release of the lock.
RunIsAllowed(t) ==
    /\ t \in CallerIds
    /\ tasks[t].pc = "locked"
    /\ lock = [holder |-> t]
    /\ LET c == tasks[t].client
           r == is_allowed(Entry(c), tasks[t].current_time)
           w == NextWindow(rl_window[c], tasks[t].current_time)
       IN  /\ clients' = [x \in (DOMAIN clients) \cup {c} |->
                             IF x = c THEN r.entry ELSE clients[x]]
           /\ rl_window' = [rl_window EXCEPT ![c] = w]
           /\ rl_allowed' = [rl_allowed EXCEPT ![c] =
                                (IF w.calls = 1 THEN 0 ELSE @)
                                + (IF r.allowed THEN 1 ELSE 0)]
    /\ lock' = None
    /\ tasks' = [tasks EXCEPT ![t] = IdleTask]
    /\ UNCHANGED <<now, rl_last, process, gen_run, shadow, gen_vars, token_vars,
                   login_vars, request, session_vars, health_vars, live_vars, call>>

\* The body of cleanup_expired_clients under the lock, and the release.
RunCleanup ==
    /\ tasks[SweeperId].pc = "locked"
    /\ lock = [holder |-> SweeperId]
    /\ clients' = [x \in (DOMAIN clients)
                          \ expired_clients(clients, tasks[SweeperId].current_time)
                     |-> clients[x]]
    /\ lock' = None
    /\ tasks' = [tasks EXCEPT ![SweeperId] = IdleTask]
    /\ UNCHANGED <<now, rl_last, rl_window, rl_allowed, process, gen_run, shadow, gen_vars, token_vars,
                   login_vars, request, session_vars, health_vars, live_vars, call>>

\* The clock moves on while coroutines wait.
ProcTick ==
    /\ now < MaxTime
    /\ now' = now + 1
    /\ UNCHANGED <<rl_vars, proc_vars, gen_vars, token_vars,
                   login_vars, request, session_vars, health_vars, live_vars, call>>

InitConcurrent ==
    /\ now = 0 /\ RlIdle /\ GenIdle /\ TokenIdle /\ LoginIdle /\ AppIdle
    /\ tasks = [t \in TaskIds |-> IdleTask]
    /\ lock = None
    /\ rl_allowed = [c \in ClientIds |-> 0]
    /\ process = None
    /\ gen_run = None
    /\ shadow = None

NextConcurrent ==
    \/ \E t \in CallerIds, c \in ClientIds : CallIsAllowed(t, c)
    \/ CallCleanup
    \/ \E t \in TaskIds : Acquire(t)
    \/ \E t \in CallerIds : RunIsAllowed(t)
    \/ RunCleanup
    \/ ProcTick

SpecConcurrent == InitConcurrent /\ [][NextConcurrent]_vars

\* C23: under any interleaving of concurrent is_allowed calls and cleanup
\* sweeps, the calls of a client answered allow within one window are never
\* more than the limit, and the stored count of a client equals the number
\* of its calls allowed so far in its current window.
C23_AllowedWithinLimit ==
    tasks # None =>
        \A c \in ClientIds :
            /\ rl_allowed[c] <= requests_per_window
            /\ c \in DOMAIN clients =>
                   /\ rl_window[c] # None
                   /\ clients[c].window_start = rl_window[c].start
                   /\ clients[c].count = rl_allowed[c]

\* Two requests of one client waited for the lock together, one ran while
\* the other still waited; the client has used up its limit and the second
\* is about to be answered.
C23_Witness ==
    /\ tasks # None
    /\ tasks["r1"].pc = "locked" /\ tasks["r2"].pc = "at_lock"
    /\ tasks["r1"].client = "c1" /\ tasks["r2"].client = "c1"
    /\ tasks[SweeperId].pc = "at_lock"
    /\ rl_allowed["c1"] = requests_per_window
    /\ rl_window["c1"].calls > requests_per_window

\* =========================================================================
\* rate_limit_middleware with a limiter or a downstream handler that raises
\* (src/app/core/rate_limiter.py)
\* =========================================================================
Return(response) == [kind |-> "return", response |-> response]

\* rate_limit_middleware, its try and except included.  limiter is what
\* rate_limiter.is_allowed does (returns allowed and headers, or raises);
\* downstream[i] is what the i-th call of call_next does (returns a response
\* or raises).  The result tells how often call_next was called and what
\* the middleware returned or raised.
\* (mutant) a limiter error answered 429
rate_limit_middleware_try_mut_closed(path, limiter, downstream) ==
    IF path \in RateLimitSkipPaths
    THEN [calls |-> 1, outcome |-> downstream[1]]
    ELSE IF limiter.kind = "raise" \/ ~limiter.allowed
    THEN [calls |-> 0,
          outcome |-> Return([status_code |-> HTTP_429_TOO_MANY_REQUESTS,
                              content |-> [error |-> "RATE_LIMIT_EXCEEDED",
                                           code |-> 429],
                              headers |-> {}])]
    ELSE IF downstream[1].kind = "raise"
    THEN [calls |-> 2, outcome |-> downstream[2]]
    ELSE [calls |-> 1,
          outcome |-> Return(SetHeaders(downstream[1].response,
                                        HeaderPairs(limiter.headers)))]

rate_limit_middleware_try(path, limiter, downstream) ==
    IF path \in RateLimitSkipPaths
    THEN [calls |-> 1, outcome |-> downstream[1]]
    ELSE IF limiter.kind = "raise"
    THEN \* except Exception: return await call_next(request)
         [calls |-> 1, outcome |-> downstream[1]]
    ELSE IF ~limiter.allowed
    THEN [calls |-> 0,
          outcome |-> Return([status_code |-> HTTP_429_TOO_MANY_REQUESTS,
                              content |-> [error |-> "RATE_LIMIT_EXCEEDED",
                                           code |-> 429],
                              headers |-> HeaderPairs(limiter.headers)])]
    ELSE IF downstream[1].kind = "raise"
    THEN \* call_next raised inside the try: the except clause calls it again
         [calls |-> 2, outcome |-> downstream[2]]
    ELSE [calls |-> 1,
          outcome |-> Return(SetHeaders(downstream[1].response,
                                        HeaderPairs(limiter.headers)))]

\* What is_allowed may do.
LimiterOutcomes ==
    {[kind |-> "return", allowed |-> TRUE, headers |-> _get_headers(1, 0)],
     [kind |-> "return", allowed |-> TRUE,
      headers |-> _get_headers(requests_per_window, 0)],
     [kind |-> "return", allowed |-> FALSE,
      headers |-> _get_headers(requests_per_window, 0)],
     Raise("RuntimeError", "limiter"),
     Raise("KeyError", "limiter")}

\* What one call of call_next may do.
DownstreamOutcomes ==
    {Return(PlainResponse(HTTP_200_OK, [message |-> "ok"])),
     Return(PlainResponse(HTTP_500_INTERNAL_SERVER_ERROR, [error |-> "HTTP_ERROR"])),
     Raise("RuntimeError", "handler"),
     Raise("ValueError", "handler")}

MiddlewarePaths == {"/", "/health/live", "/api/v1/generate-checklist"}

\* One request through rate_limit_middleware.
RunRateLimitMiddleware ==
    /\ call.fn = "rate_limit_middleware"
    /\ call.result = None
    /\ call' = [call EXCEPT !.result =
                   rate_limit_middleware_try(call.input.path, call.input.limiter,
                                             call.input.downstream)]
    /\ UNCHANGED <<now, rl_vars, gen_vars, token_vars, login_vars, request,
                   session_vars, health_vars, live_vars, proc_vars>>

InitMiddleware ==
    /\ now = 0 /\ RlIdle /\ GenIdle /\ TokenIdle /\ LoginIdle /\ ProcIdle
    /\ SessionIdle /\ HealthIdle /\ LiveIdle
    /\ \E path \in MiddlewarePaths, limiter \in LimiterOutcomes,
          d1 \in DownstreamOutcomes, d2 \in DownstreamOutcomes :
         call = [fn |-> "rate_limit_middleware",
                 input |-> [path |-> path, limiter |-> limiter,
                            downstream |-> <<d1, d2>>],
                 result |-> None]

NextMiddleware == RunRateLimitMiddleware

SpecMiddleware == InitMiddleware /\ [][NextMiddleware]_vars

MiddlewareRan ==
    call # None /\ call.fn = "rate_limit_middleware" /\ call.result # None

\* C24: when is_allowed raises an unexpected error, rate_limit_middleware
\* runs the downstream handler and returns what it returns: no 429, no
\* rejection.
C24_LimiterErrorFailsOpen ==
    (MiddlewareRan /\ call.input.limiter.kind = "raise") =>
        /\ call.result.calls >= 1
        /\ call.result.outcome = call.input.downstream[1]

\* The limiter raised on a counted path and the handler's 200 came back.
C24_Witness ==
    /\ MiddlewareRan
    /\ call.input.path = "/api/v1/generate-checklist"
    /\ call.input.limiter.kind = "raise"
    /\ call.result.calls = 1
    /\ call.result.outcome.kind = "return"
    /\ call.result.outcome.response.status_code = HTTP_200_OK

\* C29: rate_limit_middleware calls call_next at most once per request on
\* every path, also when the downstream handler raises after the limiter
\* has allowed the request.
C29_CallNextAtMostOnce ==
    MiddlewareRan => call.result.calls <= 1

\* =========================================================================
\* The server process: import of the settings and of the services
\* (src/app/core/config.py, src/app/services/groq_client.py), lifespan and
\* the rate-limiter cleanup task (src/main.py, src/app/core/rate_limiter.py)
\* =========================================================================
PlaceholderSecret == "your-secret-key-change-in-production"

\* The module-level validation of the settings: the error raised, if any.
ValidateSettings(env, GROQ_API_KEY, secret_key) ==
    IF is_production(env) /\ GROQ_API_KEY = ""
    THEN Raise("ValueError", "GROQ_API_KEY must be set in production")
    ELSE IF is_production(env) /\ secret_key = PlaceholderSecret
    THEN Raise("ValueError", "SECRET_KEY must be changed in production")
    ELSE None

\* GroqClient.__init__ for the global groq_client = GroqClient(): the error
\* raised, if any.
GroqClient_init(GROQ_API_KEY) ==
    IF GROQ_API_KEY = ""
    THEN Raise("GroqAPIError", "Groq API key is required but not provided")
    ELSE None

\* groq_api_health_check: the status reported; reply is what the GET to the
\* provider did.
groq_api_health_check(GROQ_API_KEY, reply) ==
    IF GROQ_API_KEY = "" THEN "degraded"
    ELSE IF reply.kind = "raise" THEN "unhealthy"
    ELSE IF reply.response.status_code = HTTP_200_OK THEN "healthy"
    ELSE "degraded"

\* The classes that `except Exception` does not catch.
BaseExceptionsOnly == {"CancelledError", "KeyboardInterrupt", "SystemExit"}

\* The await points of cleanup_rate_limiter inside its try block.
InsideTry == {"sweeping", "sleep_300"}

\* cleanup_rate_limiter when cls is raised at the await point `at`: where
\* the task is afterwards.
\* (mutant) the except clause catches the cancellation too
cleanup_rate_limiter_raise_mut_catch_all(at, cls) ==
    IF at \in InsideTry THEN "sleep_60" ELSE "cancelled"

cleanup_rate_limiter_raise(at, cls) ==
    IF at \in InsideTry /\ cls \notin BaseExceptionsOnly
    THEN "sleep_60"
    ELSE IF cls = "CancelledError" THEN "cancelled"
    ELSE "failed"

TaskRunning(task) == task # None /\ task.pc \notin {"cancelled", "failed"}

\* import app.core.config
LoadSettings ==
    /\ process.pc = "importing_config"
    /\ LET exc == ValidateSettings(environment, process.GROQ_API_KEY,
                                   process.SECRET_KEY)
       IN  process' =
               IF exc # None
               THEN [process EXCEPT !.pc = "aborted", !.error = exc]
               ELSE [process EXCEPT
                        !.pc = "importing_services",
                        !.warnings = IF is_production(environment) /\ process.DEBUG
                                     THEN {"DEBUG is enabled in production environment"}
                                     ELSE {}]
    /\ UNCHANGED <<now, rl_vars, gen_vars, token_vars, login_vars, request,
                   session_vars, health_vars, live_vars, call, tasks, lock,
                   rl_allowed, gen_run, shadow>>

\* import app.services: groq_client = GroqClient()
ImportServices ==
    /\ process.pc = "importing_services"
    /\ LET exc == GroqClient_init(process.GROQ_API_KEY)
       IN  process' = IF exc # None
                      THEN [process EXCEPT !.pc = "aborted", !.error = exc]
                      ELSE [process EXCEPT !.pc = "starting"]
    /\ UNCHANGED <<now, rl_vars, gen_vars, token_vars, login_vars, request,
                   session_vars, health_vars, live_vars, call, tasks, lock,
                   rl_allowed, gen_run, shadow>>

\* lifespan up to its yield
LifespanStartup ==
    /\ process.pc = "starting"
    /\ process' = [process EXCEPT
                      !.pc = "serving",
                      !.cleanup_task =
                          IF is_production(environment)
                          THEN [pc |-> "created", must_cancel |-> FALSE]
                          ELSE None]
    /\ UNCHANGED <<now, rl_vars, gen_vars, token_vars, login_vars, request,
                   session_vars, health_vars, live_vars, call, tasks, lock,
                   rl_allowed, gen_run, shadow>>

\* A request to /health runs the groq_api probe.
ProbeGroq(reply) ==
    /\ process.pc = "serving"
    /\ process' = [process EXCEPT
                      !.probe = [status |-> groq_api_health_check(
                                               process.GROQ_API_KEY, reply)]]
    /\ UNCHANGED <<now, rl_vars, gen_vars, token_vars, login_vars, request,
                   session_vars, health_vars, live_vars, call, tasks, lock,
                   rl_allowed, gen_run, shadow>>

\* The cleanup task runs on: it starts a sweep, the sweep returns, a sleep
\* ends.
CleanupTaskRuns ==
    /\ process.pc \in {"serving", "awaiting_cleanup"}
    /\ TaskRunning(process.cleanup_task)
    /\ ~process.cleanup_task.must_cancel
    /\ process' = [process EXCEPT !.cleanup_task.pc =
                      IF @ \in {"created", "sleep_300", "sleep_60"} THEN "sweeping"
                      ELSE "sleep_300"]
    /\ UNCHANGED <<now, rl_vars, gen_vars, token_vars, login_vars, request,
                   session_vars, health_vars, live_vars, call, tasks, lock,
                   rl_allowed, gen_run, shadow>>

\* The sweep or the 300-second sleep raises an error.
CleanupTaskError ==
    /\ process.pc \in {"serving", "awaiting_cleanup"}
    /\ TaskRunning(process.cleanup_task)
    /\ ~process.cleanup_task.must_cancel
    /\ process.cleanup_task.pc \in InsideTry
    /\ process' = [process EXCEPT !.cleanup_task.pc =
                      cleanup_rate_limiter_raise(@, "RuntimeError")]
    /\ UNCHANGED <<now, rl_vars, gen_vars, token_vars, login_vars, request,
                   session_vars, health_vars, live_vars, call, tasks, lock,
                   rl_allowed, gen_run, shadow>>

\* lifespan after its yield: cleanup_task.cancel(), then await cleanup_task
LifespanShutdown ==
    /\ process.pc = "serving"
    /\ process' =
           IF process.cleanup_task # None
           THEN [process EXCEPT !.pc = "awaiting_cleanup",
                                !.cleanup_task.must_cancel = TRUE]
           ELSE [process EXCEPT !.pc = "stopped"]
    /\ UNCHANGED <<now, rl_vars, gen_vars, token_vars, login_vars, request,
                   session_vars, health_vars, live_vars, call, tasks, lock,
                   rl_allowed, gen_run, shadow>>

\* The event loop throws CancelledError into the task at its await point (a
\* task not yet started is cancelled without running).
DeliverCancel ==
    /\ process.pc = "awaiting_cleanup"
    /\ TaskRunning(process.cleanup_task)
    /\ process.cleanup_task.must_cancel
    /\ process' = [process EXCEPT
                      !.cleanup_task =
                          [pc |-> IF process.cleanup_task.pc = "created"
                                  THEN "cancelled"
                                  ELSE cleanup_rate_limiter_raise(
                                           process.cleanup_task.pc, "CancelledError"),
                           must_cancel |-> FALSE,
                           cancelled_at |-> process.cleanup_task.pc]]
    /\ UNCHANGED <<now, rl_vars, gen_vars, token_vars, login_vars, request,
                   session_vars, health_vars, live_vars, call, tasks, lock,
                   rl_allowed, gen_run, shadow>>

\* await cleanup_task returns: the task is done, its CancelledError is
\* swallowed.
AwaitCleanupReturns ==
    /\ process.pc = "awaiting_cleanup"
    /\ process.cleanup_task.pc = "cancelled"
    /\ process' = [process EXCEPT !.pc = "stopped"]
    /\ UNCHANGED <<now, rl_vars, gen_vars, token_vars, login_vars, request,
                   session_vars, health_vars, live_vars, call, tasks, lock,
                   rl_allowed, gen_run, shadow>>

ApiKeys == {"", "gsk_test"}
SecretKeys == {PlaceholderSecret, "random-32-bytes"}

GroqReplies ==
    {Return(PlainResponse(HTTP_200_OK, [data |-> "models"])),
     Return(PlainResponse(HTTP_401_UNAUTHORIZED, [error |-> "invalid key"])),
     Raise("ConnectError", "no route to host")}

InitProcess ==
    /\ now = 0 /\ RlIdle /\ GenIdle /\ TokenIdle /\ LoginIdle
    /\ SessionIdle /\ HealthIdle /\ CallIdle
    /\ tasks = None /\ lock = None /\ rl_allowed = None /\ gen_run = None
    /\ shadow = None
    /\ environment \in Environments
    /\ live = None
    /\ \E key \in ApiKeys, secret \in SecretKeys, debug \in BOOLEAN :
         process = [pc |-> "importing_config", GROQ_API_KEY |-> key,
                    SECRET_KEY |-> secret, DEBUG |-> debug, error |-> None,
                    warnings |-> {}, cleanup_task |-> None, probe |-> None]

NextProcess ==
    \/ LoadSettings
    \/ ImportServices
    \/ LifespanStartup
    \/ \E reply \in GroqReplies : ProbeGroq(reply)
    \/ CleanupTaskRuns
    \/ CleanupTaskError
    \/ LifespanShutdown
    \/ DeliverCancel
    \/ AwaitCleanupReturns

\* The event loop runs a task that is ready: a requested cancellation is
\* delivered, and an await on a finished task returns.
SpecProcess ==
    /\ InitProcess
    /\ [][NextProcess]_vars
    /\ WF_vars(DeliverCancel)
    /\ WF_vars(AwaitCleanupReturns)

Started == process # None /\ process.pc \in {"serving", "awaiting_cleanup", "stopped"}

\* C25: the cleanup task is started at startup exactly when the process runs
\* in production; on shutdown it is cancelled and awaited: the shutdown
\* completes, and after it the task is not running, wherever the loop was
\* (in the sweep, in the 300-second sleep, in the 60-second sleep after an
\* error).
C25_CleanupTaskCancelledOnShutdown ==
    /\ [](Started => ((process.cleanup_task # None) <=> is_production(environment)))
    /\ []((process # None /\ process.pc = "stopped") =>
             ~TaskRunning(process.cleanup_task))
    /\ ((process # None /\ process.pc = "awaiting_cleanup")
          ~> (process.pc = "stopped"))

\* The shutdown has completed after the task was cancelled in its 60-second
\* sleep after an error.
C25_Witness ==
    /\ process # None /\ process.pc = "stopped"
    /\ process.cleanup_task # None
    /\ process.cleanup_task.pc = "cancelled"
    /\ process.cleanup_task.cancelled_at = "sleep_60"

\* C27: outside production an empty LLM API key does not abort the start:
\* the application finishes starting and serves requests, and its groq_api
\* probe reports degraded.
C27_EmptyKeyAbortsOnlyInProduction ==
    (process # None /\ ~is_production(environment) /\ process.GROQ_API_KEY = "") =>
        /\ process.pc # "aborted"
        /\ process.probe # None => process.probe.status = "degraded"

\* =========================================================================
\* generate_checklist statement by statement
\* (src/app/services/checklist_generator.py), to count the calls of
\* groq_client.generate_completion
\* =========================================================================
\* Where generate_checklist goes when generate_completion has returned or
\* raised.
after_completion(outcome) ==
    IF outcome.kind = "raise" THEN "except" ELSE "parse"

\* Where it goes from the except clauses.
\* (mutant) the completion tried again after a rate-limit error
after_except_mut_retry(exc) ==
    IF IsInstance(exc.error, "GroqRateLimitError") THEN "format_prompt"
    ELSE IF IsInstance(exc.error, "GroqAPIError") THEN "create_fallback_response"
    ELSE "raised"

after_except(exc) ==
    IF IsInstance(exc.error, "GroqRateLimitError") THEN "create_fallback_response"
    ELSE IF IsInstance(exc.error, "GroqAPIError") THEN "create_fallback_response"
    ELSE "raised"

\* Where it goes when the reply has been parsed.
after_parse(items) ==
    IF UseFallback(items) THEN "fallback_items" ELSE "respond"

\* The replies and errors of the LLM client tried here.
RunOutcomes ==
    {[kind |-> "return", value |-> r] :
        r \in {[json |-> "undecodable", has_items |-> FALSE, iterable |-> FALSE,
                items |-> <<>>],
               [json |-> "object", has_items |-> TRUE, iterable |-> TRUE,
                items |-> GoodList(MinAIItems - 1)],
               [json |-> "object", has_items |-> TRUE, iterable |-> TRUE,
                items |-> GoodList(MinAIItems)]}}
    \cup LLMErrors

\* generate_checklist(trip) is called.
StartRun(trip) ==
    /\ gen_run = None
    /\ gen_run' = [pc |-> "format_prompt", trip |-> trip, llm_calls |-> 0,
                   outcome |-> None, items |-> None, via |-> <<>>]
    /\ UNCHANGED <<now, rl_vars, gen_vars, token_vars, login_vars, request,
                   session_vars, health_vars, live_vars, call, tasks, lock,
                   rl_allowed, process, shadow>>

\* The prompt is formatted and generate_completion is called.
CallCompletion ==
    /\ gen_run # None /\ gen_run.pc = "format_prompt"
    /\ gen_run' = [gen_run EXCEPT !.pc = "awaiting_llm",
                                  !.llm_calls = @ + 1]
    /\ UNCHANGED <<now, rl_vars, gen_vars, token_vars, login_vars, request,
                   session_vars, health_vars, live_vars, call, tasks, lock,
                   rl_allowed, process, shadow>>

\* generate_completion returns or raises.
CompletionEnds(outcome) ==
    /\ gen_run # None /\ gen_run.pc = "awaiting_llm"
    /\ gen_run' = [gen_run EXCEPT !.pc = after_completion(outcome),
                                  !.outcome = outcome]
    /\ UNCHANGED <<now, rl_vars, gen_vars, token_vars, login_vars, request,
                   session_vars, health_vars, live_vars, call, tasks, lock,
                   rl_allowed, process, shadow>>

\* One statement of generate_checklist after the completion.
RunStep ==
    /\ gen_run # None
    /\ gen_run.pc \in {"parse", "fallback_items", "respond", "except",
                       "create_fallback_response"}
    /\ gen_run' =
         CASE gen_run.pc = "parse" ->
                LET items == _parse_ai_response(gen_run.outcome.value)
                IN  [gen_run EXCEPT !.pc = after_parse(items),
                                    !.items = [value |-> items],
                                    !.via = Append(@, "parse")]
           [] gen_run.pc = "fallback_items" ->
                [gen_run EXCEPT !.pc = "respond",
                                !.items = [value |-> _generate_fallback_items(gen_run.trip)],
                                !.via = Append(@, "fallback_items")]
           [] gen_run.pc = "respond" ->
                [gen_run EXCEPT !.pc = "returned", !.via = Append(@, "respond")]
           [] gen_run.pc = "except" ->
                [gen_run EXCEPT !.pc = after_except(gen_run.outcome),
                                !.via = Append(@, "except")]
           [] gen_run.pc = "create_fallback_response" ->
                [gen_run EXCEPT !.pc = "returned",
                                !.items = [value |-> _create_fallback_response(
                                                         gen_run.trip).items],
                                !.via = Append(@, "create_fallback_response")]
    /\ UNCHANGED <<now, rl_vars, gen_vars, token_vars, login_vars, request,
                   session_vars, health_vars, live_vars, call, tasks, lock,
                   rl_allowed, process, shadow>>

InitRun ==
    /\ now = 0 /\ RlIdle /\ GenIdle /\ TokenIdle /\ LoginIdle /\ AppIdle
    /\ tasks = None /\ lock = None /\ rl_allowed = None /\ process = None
    /\ gen_run = None /\ shadow = None

NextRun ==
    \/ \E trip \in ServiceTrips : StartRun(trip)
    \/ CallCompletion
    \/ \E outcome \in RunOutcomes : CompletionEnds(outcome)
    \/ RunStep

SpecRun == InitRun /\ [][NextRun]_vars

\* C26: one call of generate_checklist calls generate_completion at most
\* once on every path: no retry after a failure, and no call on the fallback
\* path (after an error, after an insufficient reply).
C26_AtMostOneCompletionCall ==
    gen_run # None =>
        /\ gen_run.llm_calls <= 1
        /\ gen_run.pc \in {"returned", "raised"} => gen_run.llm_calls = 1

\* A run that got a rate-limit error has returned the fallback after one
\* call of generate_completion.
C26_Witness ==
    /\ gen_run # None /\ gen_run.pc = "returned"
    /\ gen_run.outcome.kind = "raise"
    /\ gen_run.outcome.error = "GroqRateLimitError"
    /\ gen_run.via = <<"except", "create_fallback_response">>
    /\ gen_run.llm_calls = 1

\* =========================================================================
\* The rate limiter beside a limiter that is never swept
\* (src/app/core/rate_limiter.py)
\* =========================================================================
\* What a caller of is_allowed sees.
Observed(r) == [allowed |-> r.allowed, headers |-> r.headers]

ShadowEntry(c) ==
    IF c \in DOMAIN shadow.clients THEN shadow.clients[c] ELSE None

\* is_allowed(c) on both limiters at the same clock reading.
BothIsAllowed(c) ==
    LET r == is_allowed(Entry(c), now)
        q == is_allowed(ShadowEntry(c), now)
    IN  /\ shadow.calls < MaxSweepCalls
        /\ clients' = [x \in (DOMAIN clients) \cup {c} |->
                          IF x = c THEN r.entry ELSE clients[x]]
        /\ shadow' = [clients |-> [x \in (DOMAIN shadow.clients) \cup {c} |->
                                      IF x = c THEN q.entry ELSE shadow.clients[x]],
                      calls |-> shadow.calls + 1,
                      sweeps |-> shadow.sweeps,
                      last |-> [client |-> c, swept |-> Observed(r),
                                unswept |-> Observed(q),
                                entry_was_swept |-> (Entry(c) = None
                                                     /\ ShadowEntry(c) # None)]]
        /\ UNCHANGED <<now, rl_last, rl_window, gen_vars, token_vars, login_vars,
                       request, session_vars, health_vars, live_vars, call,
                       tasks, lock, rl_allowed, process, gen_run>>

\* cleanup_expired_clients on the real limiter only (a sweep that finds no
\* expired entry changes nothing and is left out).
SweepReal ==
    /\ clients' = [x \in (DOMAIN clients) \ expired_clients(clients, now)
                     |-> clients[x]]
    /\ clients' # clients
    /\ shadow' = [shadow EXCEPT !.sweeps = @ + 1]
    /\ UNCHANGED <<now, rl_last, rl_window, gen_vars, token_vars, login_vars,
                   request, session_vars, health_vars, live_vars, call,
                   tasks, lock, rl_allowed, process, gen_run>>

InitSweep ==
    /\ now = 0 /\ RlIdle /\ GenIdle /\ TokenIdle /\ LoginIdle /\ AppIdle
    /\ tasks = None /\ lock = None /\ rl_allowed = None /\ process = None
    /\ gen_run = None
    /\ shadow = [clients |-> <<>>, calls |-> 0, sweeps |-> 0, last |-> None]

NextSweep ==
    \/ \E c \in ClientIds : BothIsAllowed(c)
    \/ SweepReal
    \/ ProcTick

SpecSweep == InitSweep /\ [][NextSweep]_vars

\* C28: a sweep at any point of any sequence of is_allowed calls changes
\* neither the decision nor the rate-limit headers of any later is_allowed
\* call: the limiter with sweeps answers every call as the same limiter
\* without sweeps does.
C28_SweepsUnobservable ==
    (shadow # None /\ shadow.last # None) =>
        shadow.last.swept = shadow.last.unswept

\* A client whose entry had been swept called again and got the answer the
\* unswept limiter gave from the entry it still had.
C28_Witness ==
    /\ shadow # None /\ shadow.last # None
    /\ shadow.last.entry_was_swept
    /\ shadow.sweeps >= 1
    /\ shadow.last.swept = shadow.last.unswept
    /\ shadow.last.swept.allowed

\* -------------------------------------------------------------------------
\* C30: for every transport and every duration, each high-priority item of
\* the baseline catalog (for example "Credit/debit cards") is in the list
\* returned by _generate_fallback_items: neither the transport filter nor
\* the 25-item cap removes a high-priority baseline item.
\* -------------------------------------------------------------------------
C30_HighPriorityBaselineKept ==
    gen_pc = "done" =>
        \A i \in DOMAIN fallback_items :
            fallback_items[i].priority = "high" =>
                \E j \in DOMAIN gen_result.items :
                    /\ gen_result.items[j].text = fallback_items[i].text
                    /\ gen_result.items[j].priority = "high"

================================================================
